---- MODULE Spec2Model ----
(***************************************************************************)
(* A model of takiyasha / libtakiyasha: the stream ciphers, the seekable   *)
(* cipher stream adaptors (libtakiyasha Crypter, takiyasha Decoder), the   *)
(* Tencent-TEA-CBC key wrapper and the container codecs.                   *)
(*                                                                         *)
(* Byte strings are sequences of 0..255 (index 1 is Python's index 0).     *)
(* A call that raises is the record Raise(e); one that returns is Ok(v).   *)
(***************************************************************************)
EXTENDS Integers, Sequences, FiniteSets, TLC

VARIABLES
    adaptor,    \* which stream adaptor the object is: "Crypter" | "Decoder" | "none"
    cipher,     \* the stream's cipher: [kind, key]
    raw,        \* the payload buffer (Crypter._raw's bytes, Decoder._raw_audio_data)
    pos,        \* the cursor (BytesIO position, Decoder._offset)
    closed,     \* whether close() has been called and the buffer released
    last,       \* the last operation called, its arguments, and what it returned or raised
    shadow,     \* history: the plaintext last written at (or initially held by) each position
    cx          \* the state of the pure-function harnesses (cipher calls, codecs)

vars == <<adaptor, cipher, raw, pos, closed, last, shadow, cx>>

streamVars == <<adaptor, cipher, raw, pos, closed, last, shadow>>

-----------------------------------------------------------------------------
(* Bounds of the model. *)

\* longest payload buffer of a stream
MaxLen == 3
\* longest byte string one write() passes
MaxWrite == 2

-----------------------------------------------------------------------------
(* Results and byte helpers. *)

Ok(v) == [err |-> "none", val |-> v]

Raise(e) == [err |-> e, val |-> <<>>]

Min(a, b) == IF a < b THEN a ELSE b

Max(a, b) == IF a > b THEN a ELSE b

Pow2(n) == 2 ^ n

\* a ^ b for a, b < 256, bit by bit
Xor8(a, b) ==
    ((a + b) % 2) + 2 * (((a \div 2) + (b \div 2)) % 2)
    + 4 * (((a \div 4) + (b \div 4)) % 2) + 8 * (((a \div 8) + (b \div 8)) % 2)
    + 16 * (((a \div 16) + (b \div 16)) % 2) + 32 * (((a \div 32) + (b \div 32)) % 2)
    + 64 * (((a \div 64) + (b \div 64)) % 2) + 128 * (((a \div 128) + (b \div 128)) % 2)

\* Python's a ^ b on non-negative integers, byte by byte
RECURSIVE BitXor(_, _)
BitXor(a, b) ==
    IF a < 256 /\ b < 256 THEN Xor8(a, b)
    ELSE Xor8(a % 256, b % 256) + 256 * BitXor(a \div 256, b \div 256)

\* Python's a | b on non-negative integers
RECURSIVE BitOr(_, _)
BitOr(a, b) ==
    IF a = 0 THEN b
    ELSE IF b = 0 THEN a
    ELSE (IF (a % 2) + (b % 2) > 0 THEN 1 ELSE 0) + 2 * BitOr(a \div 2, b \div 2)

\* the elements lo+1 .. hi of s, for 0 <= lo and hi <= Len(s)
SliceFrom(s, lo, hi) ==
    IF hi <= lo THEN <<>> ELSE [i \in 1..(hi - lo) |-> s[lo + i]]

\* data[a:b] for 0 <= a, 0 <= b (Python clips both to the length)
Slice(s, a, b) == SliceFrom(s, Min(a, Len(s)), Min(b, Len(s)))

\* data[a:b] with Python's rule for negative indices (counted from the end)
PySlice(s, a, b) ==
    SliceFrom(s, IF a < 0 THEN Max(Len(s) + a, 0) ELSE Min(a, Len(s)),
                 IF b < 0 THEN Max(Len(s) + b, 0) ELSE Min(b, Len(s)))

Zeros(n) == [i \in 1..n |-> 0]

\* x = value; then F(x): a local variable that is assigned once (and is
\* computed at the assignment, as the statement does)
Let(value, F(_)) == IF value = value THEN F(value) ELSE F(value)

\* for i in range(lo, hi): s = Body(s, i)     (the range is halved, so that
\* the evaluation nests log2(hi - lo) deep instead of hi - lo deep)
RECURSIVE ForRange(_, _, _, _)
ForRange(Body(_, _), s, lo, hi) ==
    IF hi > lo + 1
    THEN Let(ForRange(Body, s, lo, (lo + hi) \div 2), LAMBDA s1 :
             ForRange(Body, s1, (lo + hi) \div 2, hi))
    ELSE IF hi = lo + 1 THEN Body(s, lo) ELSE s

\* while Cond(s): s = Body(s)      (at most fuel iterations; the callers pass
\* a fuel that is no less than the number of iterations the loop can make)
RECURSIVE While(_, _, _, _)
While(Cond(_), Body(_), s, fuel) ==
    IF fuel > 1
    THEN Let(While(Cond, Body, s, fuel \div 2), LAMBDA s1 :
             While(Cond, Body, s1, fuel - (fuel \div 2)))
    ELSE IF fuel = 1 /\ Cond(s) THEN Body(s) ELSE s

\* utils.bytesxor: only equal lengths can be xored
bytesxor(term1, term2) ==
    IF Len(term1) # Len(term2) THEN Raise("ValueError")
    ELSE Ok([i \in 1..Len(term1) |-> BitXor(term1[i], term2[i])])

-----------------------------------------------------------------------------
(* Keyless ciphers: the no-op cipher and NCM-cache's XOR with 163. *)

\* A cipher object: its class, its key, and the state its constructor derives
\* (rounds: TEA rounds; box: ModifiedRC4._box or NCMRC4Cipher._keystream_short;
\* hash_base: ModifiedRC4._hash_base).
NewCipher(kind, key, rounds, box, hash_base) ==
    [kind |-> kind, key |-> key, rounds |-> rounds, box |-> box, hash_base |-> hash_base]

NoBox == [i \in {} |-> 0]

\* no cipher object yet
NoCipher == NewCipher("none", <<>>, 0, NoBox, <<0, 0>>)

KeylessCipher_init == NewCipher("KeylessCipher", <<>>, 0, NoBox, <<0, 0>>)

NCMCacheCipher_init == NewCipher("NCMCacheCipher", <<>>, 0, NoBox, <<0, 0>>)

KeylessCipher_decrypt(cipherdata, start_offset) == Ok(cipherdata)

NCMCacheCipher_decrypt(cipherdata, start_offset) ==
    Ok([i \in 1..Len(cipherdata) |-> BitXor(cipherdata[i], 163)])

-----------------------------------------------------------------------------
(* QMCv2 DynamicMap. *)

\* one element of DynamicMap.yield_mask: the mask byte of absolute offset i0
DynamicMap_mask(key, i0) ==
    Let(IF i0 > 32767 THEN i0 % 32767 ELSE i0, LAMBDA i :
    Let((i * i + 71214) % Len(key), LAMBDA idx :
    Let(key[idx + 1], LAMBDA value :
    Let(((idx % 8) + 4) % 8, LAMBDA rotate :
        BitOr((value * Pow2(rotate)) % 256, (value \div Pow2(rotate)) % 256)))))

DynamicMap_decrypt(self, cipherdata, start_offset) ==
    bytesxor(cipherdata,
             [i \in 1..Len(cipherdata) |-> DynamicMap_mask(self.key, start_offset + i - 1)])

DynamicMap_init(key) == NewCipher("DynamicMap", key, 0, NoBox, <<0, 0>>)

-----------------------------------------------------------------------------
(* QMCv1 StaticMap.  The two keystream segments come from the bundled      *)
(* asset binaries/QMCv1-keystream-segment: 32768 bytes, then 32767 bytes.  *)
(* The asset's bytes are stood in for by two fixed byte tables.            *)

FirstSegLen == 32768

RemainSegLen == 32767

\* byte i (from 0) of QMCv1_KEYSTREAM_1ST_SEGMENT
QMCv1_KEYSTREAM_1ST_SEGMENT(i) == (i * 7 + (i \div 256) * 3 + 11) % 256

\* byte j (from 0) of QMCv1_KEYSTREAM_REMAINING_SEGMENT
QMCv1_KEYSTREAM_REMAINING_SEGMENT(j) == (j * 13 + (j \div 256) * 5 + 101) % 256

\* byte p of first_seg + remain_seg * count
StaticMap_keystream(p) ==
    IF p < FirstSegLen THEN QMCv1_KEYSTREAM_1ST_SEGMENT(p)
    ELSE QMCv1_KEYSTREAM_REMAINING_SEGMENT((p - FirstSegLen) % RemainSegLen)

StaticMap_init == NewCipher("StaticMap", <<>>, 0, NoBox, <<0, 0>>)

\* the length of first_seg + remain_seg * required_remain_seg_count
StaticMap_keystream_len(remain_data_len) ==
    FirstSegLen + RemainSegLen * ((remain_data_len \div RemainSegLen)
                                  + (IF remain_data_len % RemainSegLen # 0 THEN 1 ELSE 0))

\* data_len is len(cipherdata.rjust(end_offset)), which is end_offset
StaticMap_decrypt(cipherdata, start_offset) ==
    Let(start_offset + Len(cipherdata), LAMBDA end_offset :
        IF start_offset < 0 THEN Raise("ValueError")
        ELSE IF end_offset <= FirstSegLen
        THEN bytesxor(cipherdata,
                      [i \in 1..(Min(end_offset, FirstSegLen) - start_offset) |->
                          QMCv1_KEYSTREAM_1ST_SEGMENT(start_offset + i - 1)])
        ELSE bytesxor(cipherdata,
                      [i \in 1..(Min(end_offset, StaticMap_keystream_len(end_offset - FirstSegLen))
                                 - start_offset) |->
                          StaticMap_keystream(start_offset + i - 1)]))

-----------------------------------------------------------------------------
(* NCM RC4 variant: a 256-byte keystream ring computed at construction. *)

Swap(f, i, j) == [f EXCEPT ![i] = f[j], ![j] = f[i]]

\* one step of the KSA loop of NCMRC4Cipher.__init__
NCMRC4_ksa_step(key, s, i) ==
    Let((s.j + s.S[i] + key[(i % Len(key)) + 1]) % 256, LAMBDA j2 :
        [S |-> Swap(s.S, i, j2), j |-> j2])

NCMRC4_ksa(key) ==
    ForRange(LAMBDA s, i : NCMRC4_ksa_step(key, s, i),
             [S |-> [i \in 0..255 |-> i], j |-> 0], 0, 256).S

\* one byte of the ring: S[(S[n] + S[(n + S[n]) % 256]) % 256] for n = (i + 1) % 256
NCMRC4_ring_byte(S, n) == S[(S[n] + S[(n + S[n]) % 256]) % 256]

\* NCMRC4Cipher._keystream_short
NCMRC4_keystream_short(key) ==
    Let(NCMRC4_ksa(key), LAMBDA S : [i \in 0..255 |-> NCMRC4_ring_byte(S, (i + 1) % 256)])

NCMRC4Cipher_init(key) ==
    NewCipher("NCMRC4Cipher", key, 0, NCMRC4_keystream_short(key), <<0, 0>>)

NCMRC4Cipher_decrypt(self, cipherdata, start_offset) ==
    bytesxor(cipherdata,
             [i \in 1..Len(cipherdata) |-> self.box[(start_offset + i - 1) % 256]])

-----------------------------------------------------------------------------
(* 32-bit words.  A word is <<hi, lo>>, two 16-bit halves: Python computes *)
(* on unbounded integers and masks with & 0xffffffff; sums, differences    *)
(* and xors agree modulo 2^32 with the same operations on masked operands, *)
(* so every intermediate value is kept reduced modulo 2^32 here.           *)

Half == 65536

W32(hi, lo) == <<hi, lo>>

\* (a + b) & 0xffffffff
Add32(a, b) ==
    W32((a[1] + b[1] + ((a[2] + b[2]) \div Half)) % Half, (a[2] + b[2]) % Half)

\* (a - b) & 0xffffffff
Sub32(a, b) ==
    W32((a[1] - b[1] + Half - (IF a[2] < b[2] THEN 1 ELSE 0)) % Half,
        (a[2] - b[2] + Half) % Half)

Xor32(a, b) == W32(BitXor(a[1], b[1]), BitXor(a[2], b[2]))

\* (a << 4) & 0xffffffff
Shl4(a) == W32(((a[1] * 16) % Half) + (a[2] \div 4096), (a[2] * 16) % Half)

\* a >> 5, for a < 2^32
Shr5(a) == W32(a[1] \div 32, (a[2] \div 32) + (a[1] % 32) * 2048)

\* a <= b, unsigned
Le32(a, b) == a[1] < b[1] \/ (a[1] = b[1] /\ a[2] <= b[2])

\* byte k (1..4) of bs padded on the left with zeros to 4 bytes
BigByte(bs, k) == IF k > 4 - Len(bs) THEN bs[k - (4 - Len(bs))] ELSE 0

\* int.from_bytes(bs, 'big') for at most 4 bytes
FromBytesBig(bs) ==
    W32(BigByte(bs, 1) * 256 + BigByte(bs, 2), BigByte(bs, 3) * 256 + BigByte(bs, 4))

\* w.to_bytes(4, 'big')
ToBytesBig(w) == <<w[1] \div 256, w[1] % 256, w[2] \div 256, w[2] % 256>>

-----------------------------------------------------------------------------
(* TEA in ECB mode (TEAWithModeECB): one 8-byte block per call. *)

\* magic_number, the default delta 0x9e3779b9
TEA_delta == W32(40503, 31161)

\* TEAWithModeECB.transvalues
TEA_transvalues(data, key) ==
    [v0 |-> FromBytesBig(Slice(data, 0, 4)), v1 |-> FromBytesBig(Slice(data, 4, 8)),
     k0 |-> FromBytesBig(Slice(key, 0, 4)),  k1 |-> FromBytesBig(Slice(key, 4, 8)),
     k2 |-> FromBytesBig(Slice(key, 8, 12)), k3 |-> FromBytesBig(Slice(key, 12, Len(key)))]

\* (delta * n) & 0xffffffff
TEA_sum(n) == ForRange(LAMBDA acc, i : Add32(acc, TEA_delta), W32(0, 0), 0, n)

\* ((x << 4) + ka) ^ (x + sum) ^ ((x >> 5) + kb)
TEA_mix(x, ka, kb, sum) ==
    Xor32(Xor32(Add32(Shl4(x), ka), Add32(x, sum)), Add32(Shr5(x), kb))

\* one iteration of the loop of TEAWithModeECB.decrypt
TEA_decrypt_round(t, s) ==
    Let(Sub32(s.v1, TEA_mix(s.v0, t.k2, t.k3, s.sum)), LAMBDA v1n :
        [v0 |-> Sub32(s.v0, TEA_mix(v1n, t.k0, t.k1, s.sum)), v1 |-> v1n,
         sum |-> Sub32(s.sum, TEA_delta)])

\* the two words of a block as 8 bytes
TEA_block_bytes(r) == ToBytesBig(r.v0) \o ToBytesBig(r.v1)

TEAWithModeECB_decrypt(key, rounds, cipherdata) ==
    Let(TEA_transvalues(cipherdata, key), LAMBDA t :
        TEA_block_bytes(ForRange(LAMBDA s, i : TEA_decrypt_round(t, s),
                                 [v0 |-> t.v0, v1 |-> t.v1, sum |-> TEA_sum(rounds \div 2)],
                                 0, rounds \div 2)))

\* one iteration of the loop of TEAWithModeECB.encrypt
TEA_encrypt_round(t, s) ==
    Let(Add32(s.sum, TEA_delta), LAMBDA sumn :
    Let(Add32(s.v0, TEA_mix(s.v1, t.k0, t.k1, sumn)), LAMBDA v0n :
        [v0 |-> v0n, v1 |-> Add32(s.v1, TEA_mix(v0n, t.k2, t.k3, sumn)), sum |-> sumn]))

TEAWithModeECB_encrypt(key, rounds, plaindata) ==
    Let(TEA_transvalues(plaindata, key), LAMBDA t :
        TEA_block_bytes(ForRange(LAMBDA s, i : TEA_encrypt_round(t, s),
                                 [v0 |-> t.v0, v1 |-> t.v1, sum |-> W32(0, 0)],
                                 0, rounds \div 2)))

-----------------------------------------------------------------------------
(* QMCv2 ModifiedRC4. *)

ModifiedRC4_first_segsize == 128

ModifiedRC4_remain_segsize == 5120

\* (a * v) & 0xffffffff for a byte v
Mul32Byte(a, v) ==
    W32((a[1] * v + ((a[2] * v) \div Half)) % Half, (a[2] * v) % Half)

\* one iteration of the loop of ModifiedRC4.get_hash_base (stop: the loop has broken)
ModifiedRC4_hash_step(key, s, i) ==
    Let(key[i + 1], LAMBDA v :
    Let(Mul32Byte(s.hash_base, v), LAMBDA next_hash :
        IF s.stop \/ v = 0 THEN s
        ELSE IF next_hash = W32(0, 0) \/ Le32(next_hash, s.hash_base)
             THEN [s EXCEPT !.stop = TRUE]
             ELSE [s EXCEPT !.hash_base = next_hash]))

ModifiedRC4_get_hash_base(key) ==
    ForRange(LAMBDA s, i : ModifiedRC4_hash_step(key, s, i),
             [hash_base |-> W32(0, 1), stop |-> FALSE], 0, Len(key)).hash_base

\* one step of the key schedule of ModifiedRC4.__init__
ModifiedRC4_ksa_step(key, s, i) ==
    Let((s.j + s.box[i] + key[(i % Len(key)) + 1]) % Len(key), LAMBDA j2 :
        [box |-> Swap(s.box, i, j2), j |-> j2])

\* ModifiedRC4._box
ModifiedRC4_box(key) ==
    ForRange(LAMBDA s, i : ModifiedRC4_ksa_step(key, s, i),
             [box |-> [i \in 0..(Len(key) - 1) |-> i % 256], j |-> 0],
             0, Len(key)).box

\* bit k (47 the highest) of 100 * h, for a 32-bit word h: 100 * h is
\* written in three 16-bit digits, of which the bit's digit is taken
Times100Bit(h, k) ==
    Let(h[2] * 100, LAMBDA lo100 :
    Let(h[1] * 100 + (lo100 \div Half), LAMBDA mid :
    Let(IF k >= 32 THEN mid \div Half ELSE IF k >= 16 THEN mid % Half ELSE lo100 % Half,
        LAMBDA digit : (digit \div Pow2(k % 16)) % 2)))

\* one step of the long division: the next bit of the dividend comes down
Quot100Mod_step(h, d, m, s, i) ==
    Let(2 * s.r + Times100Bit(h, 47 - i), LAMBDA r2 :
        IF r2 >= d THEN [q |-> (2 * s.q + 1) % m, r |-> r2 - d]
        ELSE [q |-> (2 * s.q) % m, r |-> r2])

\* floor(100 * h / d) % m by long division, for 0 < d < 2^30
Quot100Mod(h, d, m) ==
    ForRange(LAMBDA s, i : Quot100Mod_step(h, d, m, s, i), [q |-> 0, r |-> 0], 0, 48).q

\* ModifiedRC4.get_seg_skip.  Python computes int(hash_ / ((v + 1) * seed) * 100)
\* in double precision; that is floor(100 * hash_ / d) except where d divides
\* 100 * hash_ and the two roundings land just below the integer.
ModifiedRC4_get_seg_skip(key, hash_, v) ==
    Let(key[(v % Len(key)) + 1], LAMBDA seed :
        IF seed = 0 THEN Raise("ZeroDivisionError")
        ELSE Ok(Quot100Mod(hash_, (v + 1) * seed, Len(key))))

\* ModifiedRC4.gen_first_seg, as a list
ModifiedRC4_gen_first_seg(key, hash_, data_offset, data_len) ==
    Let([i \in 1..data_len |-> ModifiedRC4_get_seg_skip(key, hash_, data_offset + i - 1)],
        LAMBDA skips :
            IF \E i \in 1..data_len : skips[i].err # "none" THEN Raise("ZeroDivisionError")
            ELSE Ok([i \in 1..data_len |-> key[skips[i].val + 1]]))

\* one iteration of the loop of ModifiedRC4.gen_remain_seg
ModifiedRC4_prga_step(key_len, s, i) ==
    Let((s.j + 1) % key_len, LAMBDA j :
    Let((s.box[j] + s.k) % key_len, LAMBDA k :
    Let(Swap(s.box, j, k), LAMBDA box :
        [box |-> box, j |-> j, k |-> k,
         out |-> IF i >= 0 THEN Append(s.out, box[(box[j] + box[k]) % key_len])
                 ELSE s.out])))

\* ModifiedRC4.gen_remain_seg, as a list: skip_len steps are discarded
\* (the negative i), data_len steps are kept; work is the local box when the
\* generator is exhausted
ModifiedRC4_gen_remain_seg(key, box0, hash_, data_offset, data_len) ==
    Let(ModifiedRC4_get_seg_skip(key, hash_, data_offset \div ModifiedRC4_remain_segsize),
        LAMBDA seg :
            IF seg.err # "none" THEN seg
            ELSE Let(ForRange(LAMBDA s, i : ModifiedRC4_prga_step(Len(key), s, i),
                              [box |-> box0, j |-> 0, k |-> 0, out |-> <<>>],
                              0 - ((data_offset % ModifiedRC4_remain_segsize) + seg.val),
                              data_len),
                     LAMBDA r : [err |-> "none", val |-> r.out, work |-> r.box]))

\* self._box after gen_remain_seg, had its local box been self._box itself
ModifiedRC4_gen_remain_seg_box_shared(self_box, work) == work

\* self._box after gen_remain_seg: the local box is self._box.copy(), so the
\* swaps of the loop are made on the copy
ModifiedRC4_gen_remain_seg_box(self_box, work) == self_box

\* the state of ModifiedRC4.decrypt between its phases (box: self._box)
RC4_mark(s, g, p) ==
    IF g.err # "none" THEN [s EXCEPT !.err = g.err]
    ELSE [s EXCEPT !.pending = @ - p, !.done = @ + p, !.offset = @ + p,
                   !.keystream = @ \o g.val]

\* a block taken from gen_remain_seg
RC4_mark_remain(s, g, p) ==
    IF g.err # "none" THEN [s EXCEPT !.err = g.err]
    ELSE [RC4_mark(s, g, p) EXCEPT !.box = ModifiedRC4_gen_remain_seg_box(s.box, g.work)]

\* first phase: the bytes before offset 128
RC4_phase_first(key, hash_, s) ==
    IF 0 <= s.offset /\ s.offset < ModifiedRC4_first_segsize
    THEN Let(Min(s.pending, ModifiedRC4_first_segsize - s.offset), LAMBDA blksize :
             RC4_mark(s, ModifiedRC4_gen_first_seg(key, hash_, s.offset, blksize), blksize))
    ELSE s

\* second phase: up to the end of the segment the offset is in
RC4_phase_partial(key, hash_, s) ==
    IF s.offset % ModifiedRC4_remain_segsize # 0
    THEN Let(Min(s.pending,
                 ModifiedRC4_remain_segsize - (s.offset % ModifiedRC4_remain_segsize)),
             LAMBDA blksize :
                 RC4_mark_remain(s, ModifiedRC4_gen_remain_seg(key, s.box, hash_, s.offset,
                                                               blksize),
                                 blksize))
    ELSE s

\* third phase: whole segments, while pending > remain_segsize
RC4_phase_whole(key, hash_, s0) ==
    While(LAMBDA s : s.err = "none" /\ s.pending > ModifiedRC4_remain_segsize,
          LAMBDA s : RC4_mark_remain(s, ModifiedRC4_gen_remain_seg(key, s.box, hash_, s.offset,
                                                                  ModifiedRC4_remain_segsize),
                                     ModifiedRC4_remain_segsize),
          s0, s0.pending \div ModifiedRC4_remain_segsize)

\* fourth phase: what is left, from the next segment
RC4_phase_last(key, hash_, s) ==
    IF s.pending > 0
    THEN RC4_mark_remain(s, ModifiedRC4_gen_remain_seg(key, s.box, hash_, s.offset, s.pending),
                         s.pending)
    ELSE s

ModifiedRC4_init(key) ==
    NewCipher("ModifiedRC4", key, 0, ModifiedRC4_box(key), ModifiedRC4_get_hash_base(key))

\* the variables of ModifiedRC4.decrypt when it returns or raises
\* (ret1, ret2: it has returned from inside the first, the second phase)
ModifiedRC4_decrypt_run(self, cipherdata, start_offset) ==
    Let(RC4_phase_first(self.key, self.hash_base,
                        [pending |-> Len(cipherdata), done |-> 0, offset |-> start_offset,
                         keystream |-> <<>>, err |-> "none", box |-> self.box]), LAMBDA s1 :
    Let(s1.err # "none" \/ (0 <= start_offset /\ start_offset < ModifiedRC4_first_segsize
                            /\ s1.pending <= 0), LAMBDA ret1 :
    Let(IF ret1 THEN s1 ELSE RC4_phase_partial(self.key, self.hash_base, s1), LAMBDA s2 :
    Let(ret1 \/ s2.err # "none"
             \/ (s1.offset % ModifiedRC4_remain_segsize # 0 /\ s2.pending <= 0), LAMBDA ret2 :
        IF ret2 THEN s2
        ELSE RC4_phase_last(self.key, self.hash_base,
                            RC4_phase_whole(self.key, self.hash_base, s2))))))

ModifiedRC4_decrypt(self, cipherdata, start_offset) ==
    Let(ModifiedRC4_decrypt_run(self, cipherdata, start_offset), LAMBDA s3 :
        IF s3.err # "none" THEN Raise(s3.err)
        ELSE bytesxor(cipherdata, s3.keystream))

\* the object after decrypt(cipherdata, start_offset)
ModifiedRC4_after_decrypt(self, cipherdata, start_offset) ==
    [self EXCEPT !.box = ModifiedRC4_decrypt_run(self, cipherdata, start_offset).box]

-----------------------------------------------------------------------------
(* Tencent TEA, CBC mode. *)

TC_salt_len == 2

TC_zero_len == 7

TC_blocksize == 8

\* TencentTEAWithModeCBC.from_recipe: simple_key and recipe interleaved
TC_simple_key == <<105, 86, 70, 56, 43, 32, 21, 11>>

TencentTEAWithModeCBC_from_recipe(recipe) ==
    [i \in 1..16 |-> IF i % 2 = 1 THEN TC_simple_key[(i + 1) \div 2] ELSE recipe[i \div 2]]

\* crypt_block of TencentTEAWithModeCBC.decrypt
TC_decrypt_block(key, rounds, cipherdata, s) ==
    Let(Slice(cipherdata, s.cipherdata_pos, s.cipherdata_pos + 8), LAMBDA iv_current :
    Let(bytesxor(Slice(s.dest_buf, 0, 8), Slice(iv_current, 0, 8)), LAMBDA x :
        IF x.err # "none" THEN [s EXCEPT !.err = x.err]
        ELSE [s EXCEPT !.iv_previous = s.iv_current, !.iv_current = iv_current,
                       !.dest_buf = TEAWithModeECB_decrypt(key, rounds, x.val),
                       !.cipherdata_pos = @ + 8, !.dest_idx = 0]))

\* one iteration of a loop of decrypt: "salt" skips a byte, "body" copies a
\* byte out, "zero" checks a byte to be zero; each decrypts the next block
\* instead when the current one is used up
TC_decrypt_step(key, rounds, cipherdata, loop, s) ==
    IF s.err # "none" THEN s
    ELSE IF s.dest_idx >= 8 THEN TC_decrypt_block(key, rounds, cipherdata, s)
    ELSE IF loop = "salt" THEN [s EXCEPT !.dest_idx = @ + 1, !.i = @ + 1]
    ELSE IF loop = "body"
    THEN [s EXCEPT !.out_buf = Append(@, BitXor(s.dest_buf[s.dest_idx + 1],
                                                s.iv_previous[s.dest_idx + 1])),
                   !.dest_idx = @ + 1]
    ELSE IF BitXor(s.dest_buf[s.dest_idx + 1], s.iv_previous[s.dest_idx + 1]) # 0
    THEN [s EXCEPT !.err = "ValidationError"]
    ELSE [s EXCEPT !.dest_idx = @ + 1]

\* whether a loop of decrypt goes on
TC_decrypt_cond(loop, out_buf_len, s) ==
    /\ s.err = "none"
    /\ IF loop = "salt" THEN s.i <= TC_salt_len ELSE Len(s.out_buf) < out_buf_len

\* a loop of decrypt, run from the state s
TC_decrypt_loop(key, rounds, cipherdata, loop, out_buf_len, s, fuel) ==
    While(LAMBDA t : TC_decrypt_cond(loop, out_buf_len, t),
          LAMBDA t : TC_decrypt_step(key, rounds, cipherdata, loop, t), s, fuel)

\* decrypt after its first block: the salt loop, the body loop, the zero check
TC_decrypt_rest(key, rounds, cipherdata, zero_check, dest_buf, pad_len, out_buf_len) ==
    Let(TC_decrypt_loop(key, rounds, cipherdata, "salt", out_buf_len,
            [dest_buf |-> dest_buf, iv_previous |-> Zeros(8),
             iv_current |-> Slice(cipherdata, 0, 8), cipherdata_pos |-> 8,
             dest_idx |-> 1 + pad_len, i |-> 1, out_buf |-> <<>>, err |-> "none"],
            TC_salt_len + 2), LAMBDA s1 :
    Let(TC_decrypt_loop(key, rounds, cipherdata, "body", out_buf_len, s1,
            out_buf_len + (out_buf_len \div 8) + 2), LAMBDA s2 :
    Let(IF zero_check
        THEN ForRange(LAMBDA s, i : TC_decrypt_step(key, rounds, cipherdata, "zero", s),
                      s2, 1, TC_zero_len)
        ELSE s2, LAMBDA s3 :
            IF pad_len + TC_salt_len # 8 THEN Raise("InvalidDataError")
            ELSE IF s3.err # "none" THEN Raise(s3.err)
            ELSE Ok(s3.out_buf))))

\* decrypt with the body taken to be len(cipherdata) - pad_len - 9 bytes
TencentTEAWithModeCBC_decrypt_nine(key, rounds, cipherdata, zero_check) ==
    IF Len(cipherdata) % TC_blocksize # 0 THEN Raise("ValueError")
    ELSE IF Len(cipherdata) < TC_blocksize * 2 THEN Raise("ValueError")
    ELSE Let(TEAWithModeECB_decrypt(key, rounds, cipherdata), LAMBDA dest_buf :
         Let(dest_buf[1] % 8, LAMBDA pad_len :
             TC_decrypt_rest(key, rounds, cipherdata, zero_check, dest_buf, pad_len,
                             Len(cipherdata) - pad_len - 9)))

TencentTEAWithModeCBC_decrypt(key, rounds, cipherdata, zero_check) ==
    IF Len(cipherdata) % TC_blocksize # 0 THEN Raise("ValueError")
    ELSE IF Len(cipherdata) < TC_blocksize * 2 THEN Raise("ValueError")
    ELSE Let(TEAWithModeECB_decrypt(key, rounds, cipherdata), LAMBDA dest_buf :
         Let(dest_buf[1] % 8, LAMBDA pad_len :
             TC_decrypt_rest(key, rounds, cipherdata, zero_check, dest_buf, pad_len,
                             Len(cipherdata) - pad_len - TC_salt_len - TC_zero_len - 1)))

\* the pad_len TencentTEAWithModeCBC.encrypt chooses
TC_pad_len(plaindata) ==
    Let((Len(plaindata) + TC_salt_len + TC_zero_len + 1) % TC_blocksize, LAMBDA r :
        IF r # 0 THEN TC_blocksize - r ELSE 0)

\* crypt_block of TencentTEAWithModeCBC.encrypt
TC_encrypt_block(key, rounds, s) ==
    Let(bytesxor(s.src_buf, s.iv_crypt).val, LAMBDA src :
    Let(bytesxor(TEAWithModeECB_encrypt(key, rounds, src), s.iv_plain).val, LAMBDA o :
        [s EXCEPT !.src_buf = src, !.iv_plain = src, !.iv_crypt = o,
                  !.out_buf = @ \o o, !.src_idx = 0]))

\* one iteration of a filling loop of encrypt: store a byte if there is
\* room, then encrypt the block if it is full
TC_encrypt_put(key, rounds, s, byte) ==
    Let(IF s.src_idx < TC_blocksize
        THEN [s EXCEPT !.src_buf[s.src_idx + 1] = byte, !.src_idx = @ + 1, !.i = @ + 1]
        ELSE s, LAMBDA s1 :
            IF s1.src_idx = TC_blocksize THEN TC_encrypt_block(key, rounds, s1) ELSE s1)

\* a filling loop of encrypt: the n bytes Byte(1) .. Byte(n) are put
TC_encrypt_fill(key, rounds, Byte(_), n, s) ==
    While(LAMBDA t : t.i <= n, LAMBDA t : TC_encrypt_put(key, rounds, t, Byte(t.i)),
          [s EXCEPT !.i = 1], n + 1)

\* the frame TencentTEAWithModeCBC.encrypt builds, with the bytes of tail
\* where encrypt puts its zero_len zeros: the ciphertexts of a writer that
\* leaves other bytes there
TC_encrypt_with_tail(key, rounds, plaindata, rnd, tail) ==
    Let(TC_pad_len(plaindata), LAMBDA pad_len :
    Let(TC_encrypt_fill(key, rounds, LAMBDA k : rnd[1 + pad_len + k], TC_salt_len,
            [src_buf |-> [k \in 1..8 |->
                             IF k = 1 THEN ((rnd[1] \div 8) * 8) + pad_len
                             ELSE IF k <= 1 + pad_len THEN rnd[k] ELSE 0],
             src_idx |-> 1 + pad_len, iv_plain |-> Zeros(8),
             iv_crypt |-> Zeros(8), out_buf |-> <<>>, i |-> 1]), LAMBDA salted :
    Let(TC_encrypt_fill(key, rounds, LAMBDA k : plaindata[k], Len(plaindata), salted),
        LAMBDA filled :
            TC_encrypt_fill(key, rounds, LAMBDA k : tail[k], TC_zero_len, filled).out_buf)))

\* TencentTEAWithModeCBC.encrypt; rnd lists the values rand() returns, in
\* order: for the first byte, for the pad_len pad bytes, for the salt bytes
TencentTEAWithModeCBC_encrypt(key, rounds, plaindata, rnd) ==
    Let(TC_pad_len(plaindata), LAMBDA pad_len :
    Let(TC_encrypt_fill(key, rounds, LAMBDA k : rnd[1 + pad_len + k], TC_salt_len,
            [src_buf |-> [k \in 1..8 |->
                             IF k = 1 THEN ((rnd[1] \div 8) * 8) + pad_len
                             ELSE IF k <= 1 + pad_len THEN rnd[k] ELSE 0],
             src_idx |-> 1 + pad_len, iv_plain |-> Zeros(8),
             iv_crypt |-> Zeros(8), out_buf |-> <<>>, i |-> 1]), LAMBDA salted :
    Let(TC_encrypt_fill(key, rounds, LAMBDA k : plaindata[k], Len(plaindata), salted),
        LAMBDA filled :
            Ok(TC_encrypt_fill(key, rounds, LAMBDA k : 0, TC_zero_len, filled).out_buf))))

-----------------------------------------------------------------------------
(* The block ciphers as objects, and what every cipher object answers. *)

TEAWithModeECB_init(key, rounds) == NewCipher("TEAWithModeECB", key, rounds, NoBox, <<0, 0>>)

TencentTEAWithModeCBC_init(key, rounds) ==
    NewCipher("TencentTEAWithModeCBC", key, rounds, NoBox, <<0, 0>>)

StreamedAESWithModeECB_init(key) ==
    NewCipher("StreamedAESWithModeECB", key, 0, NoBox, <<0, 0>>)

\* takiyasha's NoOperationStreamCipher (the Decoder's cipher)
NoOperationStreamCipher_init == NewCipher("NoOperationStreamCipher", <<>>, 0, NoBox, <<0, 0>>)

NoOperationStreamCipher_decrypt(src, offset) == Ok(src)

\* A Python value as far as a condition sees it: whether it is truthy, and
\* what it is.
PyTrue == [truthy |-> TRUE, is |-> "True"]

PyFalse == [truthy |-> FALSE, is |-> "False"]

PyBoundMethod == [truthy |-> TRUE, is |-> "bound method"]

\* what the expression cipher.support_offset evaluates to: the value of the
\* property where the class declares one, the method object itself where
\* the class declares a plain method
support_offset(self) ==
    IF self.kind \in {"StreamedAESWithModeECB", "TEAWithModeECB"} THEN PyFalse
    ELSE IF self.kind = "TencentTEAWithModeCBC" THEN PyBoundMethod
    ELSE PyTrue

\* cipher.support_decrypt, cipher.support_encrypt: inherited by every class
support_decrypt(self) == PyTrue

support_encrypt(self) == PyTrue

\* cipher.decrypt(cipherdata, start_offset)
Decrypt(self, cipherdata, start_offset) ==
    CASE self.kind = "KeylessCipher"  -> KeylessCipher_decrypt(cipherdata, start_offset)
      [] self.kind = "NoOperationStreamCipher" ->
             NoOperationStreamCipher_decrypt(cipherdata, start_offset)
      [] self.kind = "NCMCacheCipher" -> NCMCacheCipher_decrypt(cipherdata, start_offset)
      [] self.kind = "StaticMap"      -> StaticMap_decrypt(cipherdata, start_offset)
      [] self.kind = "DynamicMap"     -> DynamicMap_decrypt(self, cipherdata, start_offset)
      [] self.kind = "NCMRC4Cipher"   -> NCMRC4Cipher_decrypt(self, cipherdata, start_offset)
      [] self.kind = "ModifiedRC4"    -> ModifiedRC4_decrypt(self, cipherdata, start_offset)
      [] self.kind = "TEAWithModeECB" ->
             Ok(TEAWithModeECB_decrypt(self.key, self.rounds, cipherdata))
      [] self.kind = "TencentTEAWithModeCBC" ->
             TencentTEAWithModeCBC_decrypt(self.key, self.rounds, cipherdata, FALSE)

\* cipher.encrypt(plaindata, start_offset): KeylessCipher.encrypt calls
\* decrypt, and only the block ciphers override it; rnd is what rand() returns
Encrypt(self, plaindata, start_offset, rnd) ==
    CASE self.kind = "TEAWithModeECB" ->
             Ok(TEAWithModeECB_encrypt(self.key, self.rounds, plaindata))
      [] self.kind = "TencentTEAWithModeCBC" ->
             TencentTEAWithModeCBC_encrypt(self.key, self.rounds, plaindata, rnd)
      [] OTHER -> Decrypt(self, plaindata, start_offset)

\* the cipher object after decrypt(cipherdata, start_offset): of the classes
\* modelled only ModifiedRC4 writes to anything reachable from self (the box
\* gen_remain_seg works on); the others read self._key, self._keystream_short
\* or the module's tables
AfterDecrypt(self, cipherdata, start_offset) ==
    IF self.kind = "ModifiedRC4" THEN ModifiedRC4_after_decrypt(self, cipherdata, start_offset)
    ELSE self

\* the cipher object after encrypt(plaindata, start_offset)
AfterEncrypt(self, plaindata, start_offset) ==
    IF self.kind \in {"TEAWithModeECB", "TencentTEAWithModeCBC"} THEN self
    ELSE AfterDecrypt(self, plaindata, start_offset)

-----------------------------------------------------------------------------
(* The keys and cipher objects of the model. *)

\* a DynamicMap key (8 recipe bytes and 8 unwrapped bytes), an NCM master key
DynKey == [i \in 1..16 |-> 65 + ((i * 5) % 26)]

NcmKey == [i \in 1..16 |-> 48 + ((i * 7) % 43)]

\* ModifiedRC4 keys: one without zero bytes, one whose first byte is zero
RC4Key == [i \in 1..304 |-> 48 + ((i * i * 7 + i * 3) % 75)]

RC4KeyZ == [i \in 1..304 |-> IF i = 1 THEN 0 ELSE RC4Key[i]]

\* a 16-byte TEA key
TeaKey == [i \in 1..16 |-> i - 1]

DynCipher == DynamicMap_init(DynKey)

NcmCipher == NCMRC4Cipher_init(NcmKey)

RC4Cipher == ModifiedRC4_init(RC4Key)

RC4CipherZ == ModifiedRC4_init(RC4KeyZ)

\* the ciphers whose decrypt takes the offset into account
OffsetCiphers ==
    {KeylessCipher_init, NCMCacheCipher_init, StaticMap_init, DynCipher, NcmCipher,
     RC4Cipher, RC4CipherZ}

\* the block ciphers
BlockCiphers ==
    {StreamedAESWithModeECB_init(TeaKey), TEAWithModeECB_init(TeaKey, 64),
     TencentTEAWithModeCBC_init(TeaKey, 32)}

-----------------------------------------------------------------------------
(* io.BytesIO, the buffer under a Crypter.  b is [raw, pos, closed]; each  *)
(* method gives [err, val, ret, raw, pos]: what it raises, the bytes or    *)
(* the number it returns, and the buffer and position it leaves.           *)

BIO(err, val, ret, b_raw, b_pos) ==
    [err |-> err, val |-> val, ret |-> ret, raw |-> b_raw, pos |-> b_pos]

BytesIO_closed_error(b) == BIO("ValueError", <<>>, -1, b.raw, b.pos)

BytesIO_read(b, size) ==
    IF b.closed THEN BytesIO_closed_error(b)
    ELSE LET n    == Len(b.raw)
             stop == IF size < 0 THEN n ELSE Min(n, b.pos + size)
             data == Slice(b.raw, b.pos, stop)
         IN  BIO("none", data, -1, b.raw, b.pos + Len(data))

BytesIO_write(b, data) ==
    IF b.closed THEN BytesIO_closed_error(b)
    ELSE IF Len(data) = 0 THEN BIO("none", <<>>, 0, b.raw, b.pos)
    ELSE LET n      == Len(b.raw)
             newlen == Max(n, b.pos + Len(data))
             out    == [i \in 1..newlen |->
                           IF i > b.pos /\ i <= b.pos + Len(data) THEN data[i - b.pos]
                           ELSE IF i <= n THEN b.raw[i]
                           ELSE 0]
         IN  BIO("none", <<>>, Len(data), out, b.pos + Len(data))

BytesIO_seek(b, offset, whence) ==
    IF b.closed THEN BytesIO_closed_error(b)
    ELSE IF whence = 0
    THEN IF offset < 0 THEN BIO("ValueError", <<>>, -1, b.raw, b.pos)
         ELSE BIO("none", <<>>, offset, b.raw, offset)
    ELSE IF whence = 1
    THEN BIO("none", <<>>, Max(0, b.pos + offset), b.raw, Max(0, b.pos + offset))
    ELSE IF whence = 2
    THEN BIO("none", <<>>, Max(0, Len(b.raw) + offset), b.raw, Max(0, Len(b.raw) + offset))
    ELSE BIO("ValueError", <<>>, -1, b.raw, b.pos)

BytesIO_tell(b) ==
    IF b.closed THEN BytesIO_closed_error(b)
    ELSE BIO("none", <<>>, b.pos, b.raw, b.pos)

\* truncate(size); has_size = FALSE is truncate(None), which cuts at the position
BytesIO_truncate(b, has_size, size0) ==
    LET size == IF has_size THEN size0 ELSE b.pos
    IN  IF b.closed THEN BytesIO_closed_error(b)
        ELSE IF size < 0 THEN BIO("ValueError", <<>>, -1, b.raw, b.pos)
        ELSE BIO("none", <<>>, size, Slice(b.raw, 0, size), b.pos)

BytesIO_flush(b) ==
    IF b.closed THEN BytesIO_closed_error(b)
    ELSE BIO("none", <<>>, -1, b.raw, b.pos)

\* seekable(), readable(), writable(): True, or ValueError once closed
BytesIO_able(b) ==
    IF b.closed THEN BytesIO_closed_error(b)
    ELSE BIO("none", <<>>, 1, b.raw, b.pos)

-----------------------------------------------------------------------------
(* The stream adaptors as a state machine. *)

\* the byte values a payload buffer starts with, and those write() is given
BufferBytes == {200}

WriteBytes == {7}

\* the furthest position a stream is moved to
MaxPos == MaxLen + 1

\* byte strings over the values vals, of length lo..hi
BytesOfLen(vals, lo, hi) == UNION {[1..n -> vals] : n \in lo..hi}

\* the sizes read() is called with, the offsets seek() is called with
ReadSizes == (0 - 2)..(MaxLen + 1)

\* the (offset, whence) pairs seek() is called with: every absolute target
\* from -1 to one past the longest buffer, steps back and forth from the
\* position and from the end, and a whence that does not exist
SeekArgs ==
    {<<offset, 0>> : offset \in (0 - 1)..MaxPos}
    \cup {<<0 - 1, 1>>, <<1, 1>>, <<0 - 1, 2>>, <<0 - MaxLen - 1, 2>>, <<0, 3>>}

\* the plaintext a stream holds at each position of its buffer, read one
\* position at a time; Unknown where decrypting fails
Unknown == 0 - 1

PlainOf(c, bytes) ==
    [q \in 1..Len(bytes) |->
        IF support_offset(c).is # "True" THEN Unknown
        ELSE Let(Decrypt(c, <<bytes[q]>>, q - 1), LAMBDA d :
                 IF d.err = "none" THEN d.val[1] ELSE Unknown)]

\* the record of a call: the operation, its arguments, the position and the
\* closed flag it found, and what it raised or returned
Call(op, arg, whence, data, err, val, ret) ==
    [op |-> op, arg |-> arg, whence |-> whence, data |-> data,
     p0 |-> pos, c0 |-> closed, err |-> err, val |-> val, ret |-> ret]

NoCall == [op |-> "none", arg |-> 0, whence |-> 0, data |-> <<>>,
           p0 |-> 0, c0 |-> FALSE, err |-> "none", val |-> <<>>, ret |-> 0 - 1]

\* Crypter._raw as a BytesIO
TheRaw == [raw |-> raw, pos |-> pos, closed |-> closed]

\* `self._raw.<able>() and <support>`: what the BytesIO raises, else the
\* cipher's answer
Crypter_able_value(r, support) ==
    IF r.err # "none" THEN [err |-> r.err, truthy |-> FALSE, is |-> "raised"]
    ELSE [err |-> "none", truthy |-> support.truthy, is |-> support.is]

\* Crypter.seekable: self._raw.seekable() and self._cipher.support_offset
Crypter_seekable_value == Crypter_able_value(BytesIO_able(TheRaw), support_offset(cipher))

\* Crypter.readable / Crypter.writable
Crypter_readable_value == Crypter_able_value(BytesIO_able(TheRaw), support_decrypt(cipher))

Crypter_writable_value == Crypter_able_value(BytesIO_able(TheRaw), support_encrypt(cipher))

\* a call that changes nothing but the record of the last call
OnlyCall(c) ==
    /\ last' = c
    /\ UNCHANGED <<adaptor, cipher, raw, pos, closed, shadow, cx>>

Crypter_seekable ==
    /\ adaptor = "Crypter"
    /\ \E v \in {Crypter_seekable_value} :
        OnlyCall(Call("seekable", 0, 0, <<>>, v.err, <<>>, IF v.truthy THEN 1 ELSE 0))

\* seek, tell and truncate: UnsupportedOperation unless seekable(), then
\* the BytesIO's method, whose outcome is r
Crypter_positioning(op, arg, whence, r) ==
    /\ adaptor = "Crypter"
    /\ \E v \in {Crypter_seekable_value} :
           IF v.err # "none"
           THEN OnlyCall(Call(op, arg, whence, <<>>, v.err, <<>>, 0 - 1))
           ELSE IF ~v.truthy
           THEN OnlyCall(Call(op, arg, whence, <<>>, "UnsupportedOperation", <<>>, 0 - 1))
           ELSE /\ r.pos <= MaxPos
                /\ last' = Call(op, arg, whence, <<>>, r.err, <<>>, r.ret)
                /\ raw' = r.raw
                /\ pos' = r.pos
                /\ shadow' = Slice(shadow, 0, Len(r.raw))
                /\ UNCHANGED <<adaptor, cipher, closed, cx>>

Crypter_seek ==
    \E a \in SeekArgs :
        Crypter_positioning("seek", a[1], a[2], BytesIO_seek(TheRaw, a[1], a[2]))

Crypter_tell == Crypter_positioning("tell", 0, 0, BytesIO_tell(TheRaw))

Crypter_truncate ==
    \E size \in (0 - 1)..MaxLen :
        Crypter_positioning("truncate", size, 0, BytesIO_truncate(TheRaw, TRUE, size))

\* truncate() without a size
Crypter_truncate_here ==
    Crypter_positioning("truncate", pos, 1, BytesIO_truncate(TheRaw, FALSE, 0))

Crypter_flush ==
    /\ adaptor = "Crypter"
    /\ \E r \in {BytesIO_flush(TheRaw)} :
        OnlyCall(Call("flush", 0, 0, <<>>, r.err, <<>>, 0 - 1))

\* the property Crypter.raw: the BytesIO itself, closed or not
Crypter_raw ==
    /\ adaptor = "Crypter"
    /\ OnlyCall(Call("raw", 0, 0, <<>>, "none", raw, 0 - 1))

Crypter_close ==
    /\ adaptor = "Crypter"
    /\ last' = Call("close", 0, 0, <<>>, "none", <<>>, 0 - 1)
    /\ closed' = TRUE
    /\ raw' = <<>>
    /\ shadow' = <<>>
    /\ UNCHANGED <<adaptor, cipher, pos, cx>>

\* what rand() returns over one encrypt call: the first byte, the pad
\* bytes and the two salt bytes, in the order they are drawn
RandDraws == {[i \in 1..10 |-> 0], [i \in 1..10 |-> (37 * i + 200) % 256]}

\* the position Crypter.read and Crypter.write pass to the cipher:
\* self._raw.tell() if self.seekable() else 0
Crypter_curpos(sv) == IF sv.truthy THEN pos ELSE 0

\* Crypter.read once readable() has answered rv: the BytesIO's read gave r,
\* the cipher's decrypt gave d
Crypter_read_outcome(size, rv, r, d) ==
    IF rv.err # "none"
    THEN OnlyCall(Call("read", size, 0, <<>>, rv.err, <<>>, 0 - 1))
    ELSE IF ~rv.truthy
    THEN OnlyCall(Call("read", size, 0, <<>>, "UnsupportedOperation", <<>>, 0 - 1))
    ELSE /\ last' = Call("read", size, 0, <<>>, d.err, d.val, 0 - 1)
         /\ pos' = r.pos
         /\ UNCHANGED <<adaptor, cipher, raw, closed, shadow, cx>>

\* Crypter.read with the decryption started at offset 0 instead of the cursor
Crypter_read_from_zero ==
    /\ adaptor = "Crypter"
    /\ cipher \notin BlockCiphers
    /\ \E size \in ReadSizes :
       \E r \in {BytesIO_read(TheRaw, size)} :
       \E d \in {Decrypt(cipher, r.val, 0)} :
           Crypter_read_outcome(size, Crypter_readable_value, r, d)

\* read() and write() are called on the streams of the payload ciphers; the
\* block ciphers wrap keys and metadata and are called directly
Crypter_read ==
    /\ adaptor = "Crypter"
    /\ cipher \notin BlockCiphers
    /\ \E size \in ReadSizes :
       \E r \in {BytesIO_read(TheRaw, size)} :
       \E d \in {Decrypt(cipher, r.val, Crypter_curpos(Crypter_seekable_value))} :
           Crypter_read_outcome(size, Crypter_readable_value, r, d)

\* the history of plaintext after data went through write() at position p
\* and the buffer became newraw
ShadowAfterWrite(data, stored, p, newraw) ==
    [i \in 1..Len(newraw) |->
        IF i > p /\ i <= p + Len(stored)
        THEN IF support_offset(cipher).is = "True" /\ Len(stored) = Len(data)
             THEN data[i - p] ELSE Unknown
        ELSE IF i <= Len(shadow) THEN shadow[i]
        ELSE Unknown]

\* Crypter.write once writable() has answered wv: the cipher's encrypt gave
\* e, the BytesIO's write of e.val gave w
Crypter_write_outcome(data, wv, e, w) ==
    IF wv.err # "none"
    THEN OnlyCall(Call("write", 0, 0, data, wv.err, <<>>, 0 - 1))
    ELSE IF ~wv.truthy
    THEN OnlyCall(Call("write", 0, 0, data, "UnsupportedOperation", <<>>, 0 - 1))
    ELSE IF e.err # "none"
    THEN OnlyCall(Call("write", 0, 0, data, e.err, <<>>, 0 - 1))
    ELSE /\ Len(w.raw) <= MaxLen
         /\ last' = Call("write", 0, 0, data, w.err, <<>>, w.ret)
         /\ raw' = w.raw
         /\ pos' = w.pos
         /\ shadow' = IF Len(e.val) = 0 THEN shadow
                      ELSE ShadowAfterWrite(data, e.val, pos, w.raw)
         /\ UNCHANGED <<adaptor, cipher, closed, cx>>

\* Crypter.write with the encryption started at offset 0 instead of the cursor
Crypter_write_from_zero ==
    /\ adaptor = "Crypter"
    /\ cipher \notin BlockCiphers
    /\ \E data \in BytesOfLen(WriteBytes, 0, MaxWrite) :
       \E e \in {Encrypt(cipher, data, 0, <<>>)} :
       \E w \in {BytesIO_write(TheRaw, e.val)} :
           Crypter_write_outcome(data, Crypter_writable_value, e, w)

Crypter_write ==
    /\ adaptor = "Crypter"
    /\ cipher \notin BlockCiphers
    /\ \E data \in BytesOfLen(WriteBytes, 0, MaxWrite) :
       \E e \in {Encrypt(cipher, data, Crypter_curpos(Crypter_seekable_value), <<>>)} :
       \E w \in {BytesIO_write(TheRaw, e.val)} :
           Crypter_write_outcome(data, Crypter_writable_value, e, w)

\* Crypter.load from a file object holding the bytes F
Crypter_load ==
    /\ adaptor = "Crypter"
    /\ \E F \in BytesOfLen(BufferBytes, 0, MaxLen) :
        /\ last' = Call("load", 0, 0, F, "none", <<>>, 0 - 1)
        /\ raw' = F
        /\ pos' = 0
        /\ closed' = FALSE
        /\ cipher' = KeylessCipher_init
        /\ shadow' = PlainOf(KeylessCipher_init, F)
        /\ UNCHANGED <<adaptor, cx>>

-----------------------------------------------------------------------------
(* takiyasha's Decoder: raw is _raw_audio_data, pos is _offset, and closed *)
(* is the absence of the attribute _raw_audio_data.                        *)

\* Decoder._raise_while_closed, then the operation
Decoder_call(op, arg, whence, err, val, ret, newpos) ==
    /\ adaptor = "Decoder"
    /\ IF closed
       THEN OnlyCall(Call(op, arg, whence, <<>>, "ValueError", <<>>, 0 - 1))
       ELSE /\ last' = Call(op, arg, whence, <<>>, err, val, ret)
            /\ pos' = newpos
            /\ UNCHANGED <<adaptor, cipher, raw, closed, shadow, cx>>

Decoder_tell == Decoder_call("tell", 0, 0, "none", <<>>, pos, pos)

\* the offset Decoder.seek computes
Decoder_seek_target(offset, whence) ==
    IF whence = 0 THEN offset
    ELSE IF whence = 1 THEN Max(0, offset + pos)
    ELSE Max(0, offset + Len(raw))

Decoder_seek ==
    \E a \in SeekArgs :
    \E newpos \in {Decoder_seek_target(a[1], a[2])} :
        IF (a[2] = 0 /\ a[1] < 0) \/ a[2] \notin {0, 1, 2}
        THEN Decoder_call("seek", a[1], a[2], "ValueError", <<>>, 0 - 1, pos)
        ELSE /\ newpos <= MaxPos
             /\ Decoder_call("seek", a[1], a[2], "none", <<>>, newpos, newpos)

\* seekable() and readable(): always True while open
Decoder_seekable == Decoder_call("seekable", 0, 0, "none", <<>>, 1, pos)

\* the size Decoder.read works with
Decoder_read_size(size0) ==
    IF size0 < 0 - 1 \/ size0 > Len(raw) - pos THEN Len(raw) - pos ELSE size0

Decoder_read ==
    /\ adaptor = "Decoder"
    /\ pos + MaxLen >= 0
    /\ \E size0 \in ReadSizes :
       \E size \in {Decoder_read_size(size0)} :
       \E d \in {Decrypt(cipher, PySlice(raw, pos, pos + size), pos)} :
           IF pos >= Len(raw)
           THEN Decoder_call("read", size0, 0, "none", <<>>, 0 - 1, pos)
           ELSE Decoder_call("read", size0, 0, d.err, d.val, 0 - 1, pos + size)

Decoder_get_raw_audio_data ==
    Decoder_call("raw", 0, 0, "none", raw, 0 - 1, pos)

\* flush() is io.IOBase's, which looks at the flag IOBase.close() sets;
\* Decoder.close() does not call it, so flush() returns before and after
Decoder_flush ==
    /\ adaptor = "Decoder"
    /\ OnlyCall(Call("flush", 0, 0, <<>>, "none", <<>>, 0 - 1))

Decoder_close ==
    /\ adaptor = "Decoder"
    /\ last' = Call("close", 0, 0, <<>>, "none", <<>>, 0 - 1)
    /\ closed' = TRUE
    /\ raw' = <<>>
    /\ shadow' = <<>>
    /\ UNCHANGED <<adaptor, cipher, pos, cx>>

-----------------------------------------------------------------------------
(* Spec: one stream adaptor object and the calls made on it. *)

NoCx == [phase |-> "none"]

Init ==
    /\ adaptor \in {"Crypter", "Decoder"}
    /\ cipher \in IF adaptor = "Crypter" THEN OffsetCiphers \cup BlockCiphers
                  ELSE {NoOperationStreamCipher_init}
    /\ raw \in BytesOfLen(BufferBytes, 0, MaxLen)
    /\ pos = 0
    /\ closed = FALSE
    /\ last = NoCall
    /\ shadow = PlainOf(cipher, raw)
    /\ cx = NoCx

Next ==
    \/ Crypter_seekable
    \/ Crypter_seek
    \/ Crypter_tell
    \/ Crypter_truncate
    \/ Crypter_truncate_here
    \/ Crypter_flush
    \/ Crypter_raw
    \/ Crypter_close
    \/ Crypter_read
    \/ Crypter_write
    \/ Crypter_load
    \/ Decoder_tell
    \/ Decoder_seek
    \/ Decoder_seekable
    \/ Decoder_read
    \/ Decoder_get_raw_audio_data
    \/ Decoder_flush
    \/ Decoder_close

Spec == Init /\ [][Next]_vars

-----------------------------------------------------------------------------
(* Properties of the stream adaptors, checked under Spec. *)

\* a read() on an open Crypter over an offset-supporting cipher has just acted
AfterCrypterRead ==
    /\ adaptor = "Crypter"
    /\ last.op = "read"
    /\ ~last.c0
    /\ cipher \in OffsetCiphers

\* C1: a Crypter over an offset-supporting cipher and the buffer B, asked to
\* read(n) at the position p <= |B| with n >= -1, does what
\* cipher.decrypt(B[p:p+n], p) does (B[p:] when n = -1): it returns the bytes
\* decrypt returns, which are exactly min(n, |B| - p) of them (the whole
\* remainder when n = -1) and so never reach past the end of B, and it
\* raises only what decrypt raises.
C1_ReadDecryptsSliceAtCursor ==
    (AfterCrypterRead /\ last.p0 <= Len(raw) /\ last.arg >= 0 - 1) =>
        LET n      == last.arg
            p      == last.p0
            expect == IF n = 0 - 1 THEN Len(raw) - p ELSE Min(n, Len(raw) - p)
            slice  == IF n = 0 - 1 THEN PySlice(raw, p, Len(raw))
                      ELSE PySlice(raw, p, p + n)
            d      == Decrypt(cipher, slice, p)
        IN  /\ last.err = d.err
            /\ last.val = d.val
            /\ d.err = "none" => Len(last.val) = expect
            /\ p + Len(last.val) <= Len(raw)

\* C1 witness: a read from the middle of the buffer, over the keystream of
\* ModifiedRC4, asked for more bytes than are left and given what is left
C1_Witness ==
    /\ AfterCrypterRead
    /\ cipher = RC4Cipher
    /\ last.p0 >= 1
    /\ last.arg > Len(raw) - last.p0
    /\ last.err = "none"
    /\ Len(last.val) = Len(raw) - last.p0
    /\ Len(last.val) >= 1

\* C5: on a Crypter whose cipher supports offset, encrypt and decrypt, a
\* read returns at every position the plaintext byte most recently written
\* there, and at a position never written the plaintext the buffer held
\* there before (shadow records both as the writes happen).
C5_ReadsObserveWrites ==
    (AfterCrypterRead /\ last.err = "none") =>
        \A i \in 1..Len(last.val) :
            /\ last.p0 + i <= Len(shadow)
            /\ shadow[last.p0 + i] # Unknown => last.val[i] = shadow[last.p0 + i]

\* C5 witness: one read returns a byte that a write stored at a position
\* past the start next to a byte the buffer held before any write
C5_Witness ==
    /\ AfterCrypterRead
    /\ cipher = RC4Cipher
    /\ last.err = "none"
    /\ \E i, j \in 1..Len(last.val) :
        /\ last.p0 + i >= 2
        /\ last.val[i] \in WriteBytes
        /\ shadow[last.p0 + i] = last.val[i]
        /\ last.val[j] \notin WriteBytes
        /\ shadow[last.p0 + j] = last.val[j]

\* C6: on either adaptor, a read(n) that returns, issued at a position
\* p >= 0 (where seek(p) put the cursor), leaves tell() at p plus the number
\* of bytes returned: the cursor is not negative and has not moved back.
C6_CursorAdvancesByBytesRead ==
    (last.op = "read" /\ ~last.c0 /\ last.err = "none" /\ last.p0 >= 0) =>
        /\ pos = last.p0 + Len(last.val)
        /\ pos >= 0
        /\ pos >= last.p0

\* C17: Decoder.read(size) issued at a position p >= 0: at or past the end
\* of the buffer it returns b'' and leaves the position; before the end,
\* with size omitted (-1), negative, or more than what remains, it returns
\* the decryption of everything from p to the end and leaves the position
\* at the end.
C17_DecoderReadToEnd ==
    (adaptor = "Decoder" /\ last.op = "read" /\ ~last.c0 /\ last.p0 >= 0) =>
        IF last.p0 >= Len(raw)
        THEN last.err = "none" /\ last.val = <<>> /\ pos = last.p0
        ELSE (last.arg < 0 \/ last.arg > Len(raw) - last.p0) =>
                 /\ [err |-> last.err, val |-> last.val]
                        = Decrypt(cipher, SliceFrom(raw, last.p0, Len(raw)), last.p0)
                 /\ pos = Len(raw)

\* C7: a Crypter over AES-ECB, TEA-ECB or Tencent-TEA-CBC answers seekable()
\* with false, and its seek, tell and truncate fail with
\* UnsupportedOperation and leave the cursor where it was.
C7_BlockCipherStreamNotSeekable ==
    (adaptor = "Crypter" /\ cipher \in BlockCiphers /\ ~last.c0) =>
        /\ last.op = "seekable" => last.ret = 0
        /\ last.op \in {"seek", "tell", "truncate"} =>
               (last.err = "UnsupportedOperation" /\ pos = last.p0)

\* C8: an operation that finds the stream closed leaves it closed; if it is
\* read, write, seek, tell, truncate, flush or the access to the raw data it
\* fails with the error of a closed stream (ValueError), and if it is close
\* it returns.
C8_ClosedStreamStaysClosed ==
    last.c0 =>
        /\ closed
        /\ last.op \in {"read", "write", "seek", "tell", "truncate", "flush", "raw"} =>
               last.err = "ValueError"
        /\ last.op = "close" => last.err = "none"

-----------------------------------------------------------------------------
(* SpecCipher: one cipher object and the calls made on it directly.  cx     *)
(* holds the experiment: the data X, the offset o, the split point a, and   *)
(* what each call returned or raised.                                       *)

MaxData == 2

\* StaticMap objects constructed after the first cipher
MaxNews == 1

\* the offsets given to the ciphers: the start, and the last byte of
\* ModifiedRC4's first 128 bytes, of its first 5120-byte segment, and of
\* StaticMap's first 32768-byte segment
CipherOffsets == {0, 127, 5119, 32767}

\* the data given to decrypt when a split is compared
SplitData == BytesOfLen(BufferBytes, 0, MaxData)

\* the data given to encrypt: short strings, and one that fills a TEA block
RoundTripData == SplitData \cup {[i \in 1..8 |-> 10 * i]}

\* the ciphers of the model: pyaes, which StreamedAESWithModeECB wraps, is
\* not part of the repository
ModelledCiphers ==
    {c \in OffsetCiphers \cup BlockCiphers : c.kind # "StreamedAESWithModeECB"}

NoResult == [err |-> "not called", val |-> <<>>]

\* built: the cipher object as its constructor left it; seg_loaded, seg_reads:
\* whether the module's two QMCv1 tables are non-empty, and how many times
\* the segment file has been read; news: the StaticMap objects constructed
\* after the first cipher
NoExperiment ==
    [phase |-> "none", X |-> <<>>, o |-> 0, a |-> 0, whole |-> NoResult,
     left |-> NoResult, right |-> NoResult, enc |-> NoResult, dec |-> NoResult,
     again |-> NoResult, rnd |-> <<>>, rnd_again |-> <<>>,
     built |-> NoCipher, seg_loaded |-> FALSE, seg_reads |-> 0, news |-> 0]

\* no stream adaptor is constructed in SpecCipher
NoStream ==
    /\ adaptor = "none"
    /\ raw = <<>>
    /\ pos = 0
    /\ closed = FALSE
    /\ last = NoCall
    /\ shadow = <<>>

\* what a cipher call leaves alone: everything but the cipher object
nonCipherVars == <<adaptor, raw, pos, closed, last, shadow>>

\* load_segment_file(): the file is read when one of the tables is empty
load_segment_file(x) ==
    IF ~x.seg_loaded THEN [x EXCEPT !.seg_loaded = TRUE, !.seg_reads = @ + 1] ELSE x

\* cipher.decrypt(X, o)
Cipher_decrypt_whole ==
    /\ cx.phase = "none"
    /\ cipher \in OffsetCiphers
    /\ \E X \in SplitData, o \in CipherOffsets :
        \E w \in {Decrypt(cipher, X, o)} :
            /\ cx' = [cx EXCEPT !.phase = "whole", !.X = X, !.o = o, !.whole = w]
            /\ cipher' = AfterDecrypt(cipher, X, o)
    /\ UNCHANGED nonCipherVars

\* cipher.decrypt(A, o) and cipher.decrypt(B, o + len(A)) for X = A + B
Cipher_decrypt_split ==
    /\ cx.phase = "whole"
    /\ \E a \in 0..Len(cx.X) :
        \E l \in {Decrypt(cipher, Slice(cx.X, 0, a), cx.o)} :
        \E c1 \in {AfterDecrypt(cipher, Slice(cx.X, 0, a), cx.o)} :
        \E r \in {Decrypt(c1, Slice(cx.X, a, Len(cx.X)), cx.o + a)} :
            /\ cx' = [cx EXCEPT !.phase = "split", !.a = a, !.left = l, !.right = r]
            /\ cipher' = AfterDecrypt(c1, Slice(cx.X, a, Len(cx.X)), cx.o + a)
    /\ UNCHANGED nonCipherVars

\* cipher.encrypt(X, o)
Cipher_encrypt ==
    /\ cx.phase = "none"
    /\ support_encrypt(cipher).truthy
    /\ support_decrypt(cipher).truthy
    /\ \E X \in RoundTripData, o \in CipherOffsets :
        \E rnd \in IF cipher \in BlockCiphers THEN RandDraws ELSE {<<>>} :
        \E e \in {Encrypt(cipher, X, o, rnd)} :
            /\ cx' = [cx EXCEPT !.phase = "encrypted", !.X = X, !.o = o, !.enc = e,
                                !.rnd = rnd]
            /\ cipher' = AfterEncrypt(cipher, X, o)
    /\ UNCHANGED nonCipherVars

\* cipher.decrypt(Y, o) of the Y = cipher.encrypt(X, o) that was returned
Cipher_decrypt_encrypted ==
    /\ cx.phase = "encrypted"
    /\ cx.enc.err = "none"
    /\ \E d \in {Decrypt(cipher, cx.enc.val, cx.o)} :
        cx' = [cx EXCEPT !.phase = "decrypted", !.dec = d]
    /\ cipher' = AfterDecrypt(cipher, cx.enc.val, cx.o)
    /\ UNCHANGED nonCipherVars

\* cipher.decrypt(X, o) at the offset after o
Cipher_decrypt_again_at_next_offset ==
    /\ cx.phase \in {"whole", "split"}
    /\ cx.again = NoResult
    /\ \E w \in {Decrypt(cipher, cx.X, cx.o + 1)} : cx' = [cx EXCEPT !.again = w]
    /\ cipher' = AfterDecrypt(cipher, cx.X, cx.o + 1)
    /\ UNCHANGED nonCipherVars

\* cipher.decrypt(X, o) a second time, before or after other calls
Cipher_decrypt_again ==
    /\ cx.phase \in {"whole", "split"}
    /\ cx.again = NoResult
    /\ \E w \in {Decrypt(cipher, cx.X, cx.o)} : cx' = [cx EXCEPT !.again = w]
    /\ cipher' = AfterDecrypt(cipher, cx.X, cx.o)
    /\ UNCHANGED nonCipherVars

\* cipher.encrypt(X, o) a second time, before or after other calls; rand()
\* returns what it returns
Cipher_encrypt_again ==
    /\ cx.phase \in {"encrypted", "decrypted"}
    /\ cx.again = NoResult
    /\ \E rnd \in IF cipher \in BlockCiphers THEN RandDraws ELSE {<<>>} :
        \E e \in {Encrypt(cipher, cx.X, cx.o, rnd)} :
            cx' = [cx EXCEPT !.again = e, !.rnd_again = rnd]
    /\ cipher' = AfterEncrypt(cipher, cx.X, cx.o)
    /\ UNCHANGED nonCipherVars

\* StaticMap(): one more StaticMap object is constructed in the process,
\* before or after the calls on the first cipher
StaticMap_new ==
    /\ cx.news < MaxNews
    /\ cx.phase \in {"none", "whole", "decrypted"}
    /\ cx' = [load_segment_file(cx) EXCEPT !.news = @ + 1]
    /\ UNCHANGED streamVars

\* the cipher has been constructed; constructing a StaticMap has called
\* load_segment_file
InitCipher ==
    /\ cipher \in ModelledCiphers
    /\ cx = IF cipher.kind = "StaticMap"
            THEN load_segment_file([NoExperiment EXCEPT !.built = cipher])
            ELSE [NoExperiment EXCEPT !.built = cipher]
    /\ NoStream

NextCipher ==
    \/ Cipher_decrypt_whole
    \/ Cipher_decrypt_split
    \/ Cipher_encrypt
    \/ Cipher_decrypt_encrypted
    \/ Cipher_decrypt_again
    \/ Cipher_encrypt_again
    \/ StaticMap_new

SpecCipher == InitCipher /\ [][NextCipher]_vars

-----------------------------------------------------------------------------
(* Properties of the ciphers, checked under SpecCipher. *)

\* C2: for an offset-supporting cipher, data X = A || B and an offset o, if
\* decrypt(X, o) returns then decrypt(A, o) and decrypt(B, o + |A|) return
\* too, and decrypt(X, o) is their concatenation.
C2_RandomAccessEquivalence ==
    (cx.phase = "split" /\ cx.whole.err = "none") =>
        /\ cx.left.err = "none"
        /\ cx.right.err = "none"
        /\ cx.whole.val = cx.left.val \o cx.right.val

\* C3: for a cipher that reports support_encrypt and support_decrypt, data X
\* and an offset o, encrypt(X, o) returns, and decrypt of what it returned,
\* at the same offset, returns X.
C3_CipherRoundTrip ==
    /\ cx.phase = "encrypted" => cx.enc.err = "none"
    /\ cx.phase = "decrypted" => (cx.dec.err = "none" /\ cx.dec.val = cx.X)

ModifiedRC4_ks(self, q) ==
    IF q < ModifiedRC4_first_segsize
    THEN Let(ModifiedRC4_get_seg_skip(self.key, self.hash_base, q), LAMBDA skip :
             IF skip.err # "none" THEN skip ELSE Ok(self.key[skip.val + 1]))
    ELSE Let(ModifiedRC4_get_seg_skip(self.key, self.hash_base,
                                      q \div ModifiedRC4_remain_segsize), LAMBDA skip :
             IF skip.err # "none" THEN skip
             ELSE Ok(ForRange(LAMBDA s, i : ModifiedRC4_prga_step(Len(self.key), s, i),
                              [box |-> self.box, j |-> 0, k |-> 0, out |-> <<>>],
                              0 - ((q % ModifiedRC4_remain_segsize) + skip.val), 1).out[1]))

\* C21: for a ModifiedRC4 object of a key longer than 300 bytes, an offset
\* p >= 0 and data X, decrypt(X, p) returns |X| bytes, and byte i of them is
\* X[i] xor ks(p + i), the keystream byte of the position, whichever of the
\* four phases of decrypt produced it.
C21_PositionIndexedKeystream ==
    (cx.phase \in {"whole", "split"} /\ cipher.kind = "ModifiedRC4" /\ Len(cipher.key) > 300) =>
        /\ cx.whole.err = "none"
        /\ Len(cx.whole.val) = Len(cx.X)
        /\ \A i \in 1..Len(cx.X) :
               /\ ModifiedRC4_ks(cipher, cx.o + i - 1).err = "none"
               /\ cx.whole.val[i] = BitXor(cx.X[i], ModifiedRC4_ks(cipher, cx.o + i - 1).val)

\* C26: for a ModifiedRC4 object of a key longer than 300 bytes, zero bytes
\* or not, no decrypt or encrypt call ends in a division by zero: every
\* seg_skip(v) the call asks for is defined, and the call returns.
C26_NoArithmeticFailure ==
    (cipher.kind = "ModifiedRC4" /\ Len(cipher.key) > 300) =>
        \A r \in {cx.whole, cx.left, cx.right, cx.enc, cx.dec, cx.again} :
            r.err \in {"none", "not called"}

\* C22: whatever decrypt and encrypt calls have been made on a cipher, the
\* object is what its constructor left: the same key, the same ModifiedRC4
\* box and hash base, the same NCM keystream ring; and the QMCv1 segment file
\* has been read once if a StaticMap was ever constructed, never twice.
C22_DerivedStateFrozen ==
    /\ cipher = cx.built
    /\ cx.seg_reads <= 1
    /\ (cipher.kind = "StaticMap" \/ cx.news > 0) => (cx.seg_loaded /\ cx.seg_reads = 1)

\* a ModifiedRC4 object has decrypted data across the end of its first
\* 5120-byte segment three times (whole, in two parts, and again), and a
\* StaticMap has been constructed since
C22_Witness ==
    /\ cipher.kind = "ModifiedRC4"
    /\ cx.phase = "split" /\ cx.again # NoResult
    /\ cx.o = 5119 /\ Len(cx.X) = 2 /\ cx.a = 1
    /\ cx.whole.err = "none" /\ cx.right.err = "none"
    /\ cx.news = 1

-----------------------------------------------------------------------------
(* SpecTea: one TencentTEAWithModeCBC object, a body encrypted with it and  *)
(* the result decrypted with it.                                            *)

MaxBody == 9

\* the 16-byte keys: a plain one, and one that from_recipe assembles
TeaKeys == {TeaKey, TencentTEAWithModeCBC_from_recipe(SliceFrom(DynKey, 0, 8))}

TeaRounds == {32, 64}

\* the bodies: one of every length from 1 to MaxBody
TeaBodies == {[i \in 1..n |-> (29 * i) % 256] : n \in 1..MaxBody}

\* tail: the 7 bytes behind the body in the frame that was decrypted
NoTeaExperiment ==
    [phase |-> "none", X |-> <<>>, rnd |-> <<>>, pad_len |-> 0, zero_check |-> FALSE,
     enc |-> NoResult, dec |-> NoResult, tail |-> <<>>]

\* the 7 trailing bytes of a frame: all zero, or one of them 165
TeaTails == {[k \in 1..TC_zero_len |-> IF k = n THEN 165 ELSE 0] : n \in 0..TC_zero_len}

\* the bodies of the frames given to decrypt: the empty one and the bodies
\* of encrypt
TeaFrameBodies == {<<>>} \cup TeaBodies

\* cipher.encrypt(X), with rand() returning the values of rnd
Tencent_encrypt ==
    /\ cx.phase = "none"
    /\ \E X \in TeaBodies, rnd \in RandDraws :
        \E e \in {TencentTEAWithModeCBC_encrypt(cipher.key, cipher.rounds, X, rnd)} :
            cx' = [cx EXCEPT !.phase = "encrypted", !.X = X, !.rnd = rnd,
                             !.pad_len = TC_pad_len(X), !.enc = e]
    /\ UNCHANGED streamVars

\* cipher.decrypt(Y, zero_check) of the Y = cipher.encrypt(X) that was returned
Tencent_decrypt ==
    /\ cx.phase = "encrypted"
    /\ cx.enc.err = "none"
    /\ \E zero_check \in BOOLEAN :
        \E d \in {TencentTEAWithModeCBC_decrypt(cipher.key, cipher.rounds, cx.enc.val,
                                                zero_check)} :
            cx' = [cx EXCEPT !.phase = "decrypted", !.zero_check = zero_check, !.dec = d]
    /\ UNCHANGED streamVars

\* cipher.decrypt(Y, zero_check=...) of a frame Y whose 7 trailing bytes are
\* those of tail
Tencent_decrypt_frame ==
    /\ cx.phase = "none"
    /\ \E X \in TeaFrameBodies, rnd \in RandDraws, tail \in TeaTails, zero_check \in BOOLEAN :
        \E Y \in {TC_encrypt_with_tail(cipher.key, cipher.rounds, X, rnd, tail)} :
        \E d \in {TencentTEAWithModeCBC_decrypt(cipher.key, cipher.rounds, Y, zero_check)} :
            cx' = [cx EXCEPT !.phase = "frame decrypted", !.X = X, !.rnd = rnd,
                             !.pad_len = TC_pad_len(X), !.tail = tail, !.enc = Ok(Y),
                             !.zero_check = zero_check, !.dec = d]
    /\ UNCHANGED streamVars

InitTea ==
    /\ cipher \in {TencentTEAWithModeCBC_init(key, rounds) : key \in TeaKeys,
                                                             rounds \in TeaRounds}
    /\ cx = NoTeaExperiment
    /\ NoStream

NextTea ==
    \/ Tencent_encrypt
    \/ Tencent_decrypt
    \/ Tencent_decrypt_frame

SpecTea == InitTea /\ [][NextTea]_vars

-----------------------------------------------------------------------------
(* Properties of Tencent TEA, checked under SpecTea. *)

\* C9: for a 16-byte key and a body B of at least one byte, whatever pad
\* length 0..7 encrypt chose and whatever the random generator returned,
\* decrypt of encrypt(B) returns B.
C9_TencentTEARoundTrip ==
    /\ cx.phase = "encrypted" => (cx.enc.err = "none" /\ cx.pad_len \in 0..7)
    /\ cx.phase = "decrypted" => (cx.dec.err = "none" /\ cx.dec.val = cx.X)

\* pad_len of a ciphertext: the low 3 bits of the first decrypted byte
C25_pad_len ==
    TEAWithModeECB_decrypt(cipher.key, cipher.rounds, cx.enc.val)[1] % 8

\* the decrypt call whose zero check, if one was asked for, has nothing to
\* refuse
C25_Decrypted ==
    /\ cx.phase \in {"decrypted", "frame decrypted"}
    /\ cx.zero_check => cx.tail \in {<<>>, Zeros(TC_zero_len)}

\* C25 as stated: decrypt of a ciphertext (a multiple of 8, at least 16
\* bytes) with pad_len = 6 returns len(cipher) - pad_len - 9 bytes; with any
\* other pad_len it raises InvalidDataError and returns nothing.
C25_BodyLengthMinusNine ==
    C25_Decrypted =>
        IF C25_pad_len = 6
        THEN cx.dec.err = "none" /\ Len(cx.dec.val) = Len(cx.enc.val) - C25_pad_len - 9
        ELSE cx.dec = Raise("InvalidDataError")

\* C25 amended: with pad_len = 6 decrypt returns len(cipher) - pad_len - 10
\* bytes, the body behind the first byte, the 6 pad bytes and the 2 salt
\* bytes and before the 7 trailing bytes; with any other pad_len it raises
\* InvalidDataError and returns nothing.
C25_BodyLengthMinusTen ==
    C25_Decrypted =>
        IF C25_pad_len = 6
        THEN /\ cx.dec.err = "none"
             /\ Len(cx.dec.val) = Len(cx.enc.val) - C25_pad_len - 10
             /\ cx.dec.val = cx.X
        ELSE cx.dec = Raise("InvalidDataError")

\* a frame of 24 bytes with pad_len 6 has been decrypted to its 8 body bytes
C25_Witness ==
    /\ C25_Decrypted
    /\ Len(cx.enc.val) = 24
    /\ C25_pad_len = 6
    /\ Len(cx.dec.val) = 8

\* C23: decrypt called with the zero check on a frame of valid pad length
\* raises ValidationError if and only if one of the 7 bytes behind the body
\* is not zero.
C23_ZeroCheckAllSeven ==
    (cx.phase = "frame decrypted" /\ cx.zero_check /\ cx.pad_len + TC_salt_len = 8) =>
        ((cx.dec.err = "ValidationError") <=> (\E k \in 1..TC_zero_len : cx.tail[k] # 0))

-----------------------------------------------------------------------------
(* The conversions of the container codecs: base64, int.from_bytes and      *)
(* int.to_bytes, int() and str(), bytes.split.                              *)

\* the base64 character (its ASCII code) of a 6-bit value
B64Char(v) ==
    IF v < 26 THEN 65 + v
    ELSE IF v < 52 THEN 97 + (v - 26)
    ELSE IF v < 62 THEN 48 + (v - 52)
    ELSE IF v = 62 THEN 43
    ELSE 47

\* the 6-bit value of a base64 character, -1 for any other character
B64Value(c) ==
    IF c >= 65 /\ c <= 90 THEN c - 65
    ELSE IF c >= 97 /\ c <= 122 THEN (c - 97) + 26
    ELSE IF c >= 48 /\ c <= 57 THEN (c - 48) + 52
    ELSE IF c = 43 THEN 62
    ELSE IF c = 47 THEN 63
    ELSE 0 - 1

\* s[i], 0 past the end
ByteAt(s, i) == IF i <= Len(s) THEN s[i] ELSE 0

\* character j (0..3) of the group g (0, 1, ..) of b64encode(s)
B64EncodeChar(s, g, j) ==
    IF j = 0 THEN B64Char(s[3 * g + 1] \div 4)
    ELSE IF j = 1 THEN B64Char(((s[3 * g + 1] % 4) * 16) + (ByteAt(s, 3 * g + 2) \div 16))
    ELSE IF j = 2
    THEN (IF 3 * g + 2 > Len(s) THEN 61
          ELSE B64Char(((s[3 * g + 2] % 16) * 4) + (ByteAt(s, 3 * g + 3) \div 64)))
    ELSE (IF 3 * g + 3 > Len(s) THEN 61 ELSE B64Char(s[3 * g + 3] % 64))

\* base64.b64encode
b64encode(s) ==
    [k \in 1..(4 * ((Len(s) + 2) \div 3)) |-> B64EncodeChar(s, (k - 1) \div 4, (k - 1) % 4)]

\* the number of '=' that end s, 2 at most
B64Padding(s) ==
    IF Len(s) >= 2 /\ s[Len(s)] = 61 /\ s[Len(s) - 1] = 61 THEN 2
    ELSE IF Len(s) >= 1 /\ s[Len(s)] = 61 THEN 1
    ELSE 0

B64Sextet(s, i) == IF s[i] = 61 THEN 0 ELSE B64Value(s[i])

\* byte j (0..2) of the group g of b64decode(s)
B64DecodeByte(s, g, j) ==
    IF j = 0 THEN (B64Sextet(s, 4 * g + 1) * 4) + (B64Sextet(s, 4 * g + 2) \div 16)
    ELSE IF j = 1
    THEN ((B64Sextet(s, 4 * g + 2) % 16) * 16) + (B64Sextet(s, 4 * g + 3) \div 4)
    ELSE ((B64Sextet(s, 4 * g + 3) % 4) * 64) + B64Sextet(s, 4 * g + 4)

\* base64.b64decode(s, validate=True): only whole groups of alphabet
\* characters, the last one ending in at most two '=', are accepted
b64decode(s) ==
    IF Len(s) % 4 # 0 THEN Raise("binascii.Error")
    ELSE IF \E i \in 1..(Len(s) - B64Padding(s)) : B64Value(s[i]) < 0
    THEN Raise("binascii.Error")
    ELSE Ok([k \in 1..((3 * (Len(s) \div 4)) - B64Padding(s)) |->
                B64DecodeByte(s, (k - 1) \div 3, (k - 1) % 3)])

\* the integers of the model stay below 2^30: a 4-byte field that holds
\* more is read as MaxInt, which is more than any length it is compared with
MaxInt == 1073741823

Reverse(s) == [i \in 1..Len(s) |-> s[Len(s) + 1 - i]]

\* int.from_bytes(bs, byteorder) for at most 4 bytes
int_from_bytes(bs, byteorder) ==
    Let(FromBytesBig(IF byteorder = "big" THEN bs ELSE Reverse(bs)), LAMBDA w :
        IF w[1] >= 16384 THEN MaxInt ELSE (w[1] * Half) + w[2])

\* n.to_bytes(4, byteorder)
int_to_bytes(n, byteorder) ==
    IF byteorder = "big" THEN ToBytesBig(W32(n \div Half, n % Half))
    ELSE Reverse(ToBytesBig(W32(n \div Half, n % Half)))

\* the value of the decimal digits bs[1..n]
RECURSIVE DigitsValue(_, _)
DigitsValue(bs, n) == IF n = 0 THEN 0 ELSE (10 * DigitsValue(bs, n - 1)) + (bs[n] - 48)

\* int(bs) for the forms the model gives it: 1 to 9 decimal digits
PyInt(bs) ==
    IF Len(bs) >= 1 /\ Len(bs) <= 9 /\ \A i \in 1..Len(bs) : bs[i] >= 48 /\ bs[i] <= 57
    THEN Ok(DigitsValue(bs, Len(bs)))
    ELSE Raise("ValueError")

\* str(n).encode() for n >= 0
RECURSIVE PyStr(_)
PyStr(n) == IF n < 10 THEN <<48 + n>> ELSE Append(PyStr(n \div 10), 48 + (n % 10))

\* str(bs).encode() for bs of printable characters other than ' and \ :
\* the repr of a bytes object, b'...'
PyStrBytes(bs) == <<98, 39>> \o bs \o <<39>>

\* the positions of the commas of bs
CommaAt(bs) == {i \in 1..Len(bs) : bs[i] = 44}

KthComma(commas, k) == CHOOSE i \in commas : Cardinality({j \in commas : j < i}) = k - 1

\* bs.split(b',')
SplitComma(bs) ==
    Let(CommaAt(bs), LAMBDA commas :
        [k \in 1..(Cardinality(commas) + 1) |->
            SliceFrom(bs, IF k = 1 THEN 0 ELSE KthComma(commas, k - 1),
                          IF k > Cardinality(commas) THEN Len(bs)
                          ELSE KthComma(commas, k) - 1)])

\* Python's None, and a value that is not None
None == <<>>

Some(v) == <<v>>

-----------------------------------------------------------------------------
(* QMCv2 key wrapping (keyutils) and the QMCv2, QMCv1, NCMCache codecs.     *)

\* TencentTEAWithModeCBC.from_recipe raises for a recipe that is not 8 bytes
QMCv2_key_decrypt(ciphered_keydata) ==
    Let(b64decode(ciphered_keydata), LAMBDA decoded :
        IF decoded.err # "none" THEN decoded
        ELSE IF Len(Slice(decoded.val, 0, 8)) # TC_blocksize THEN Raise("ValueError")
        ELSE Let(TencentTEAWithModeCBC_decrypt(
                     TencentTEAWithModeCBC_from_recipe(Slice(decoded.val, 0, 8)), 32,
                     Slice(decoded.val, 8, Len(decoded.val)), TRUE), LAMBDA segment :
                 IF segment.err # "none" THEN segment
                 ELSE Ok(Slice(decoded.val, 0, 8) \o segment.val)))

QMCv2_key_encrypt(plain_keydata, rnd) ==
    IF Len(Slice(plain_keydata, 0, 8)) # TC_blocksize THEN Raise("ValueError")
    ELSE Let(TencentTEAWithModeCBC_encrypt(
                 TencentTEAWithModeCBC_from_recipe(Slice(plain_keydata, 0, 8)), 32,
                 Slice(plain_keydata, 8, Len(plain_keydata)), rnd), LAMBDA segment :
             IF segment.err # "none" THEN segment
             ELSE Ok(b64encode(Slice(plain_keydata, 0, 8) \o segment.val)))

\* b'\x25\x02\x00\x00' and b'STag'
QMCv2_unsupported_file_tailer == {<<37, 2, 0, 0>>, <<83, 84, 97, 103>>}

\* b'QTag'
QTagTail == <<81, 84, 97, 103>>

\* fileobj.seek(-n, 2) on the file object holding F: the position it gives
SeekFromEnd(F, n) == Max(Len(F) - n, 0)

\* fileobj.read(n) at the position p
ReadAt(F, p, n) == Slice(F, p, p + n)

\* the position of a BytesIO over F after read(n) at the position p
TellAfterRead(F, p, n) == IF p >= Len(F) THEN p ELSE Min(p + n, Len(F))

\* header.startswith(prefix)
StartsWith(header, prefix) ==
    Len(header) >= Len(prefix) /\ SliceFrom(header, 0, Len(prefix)) = prefix

\* the last 4 bytes of the file F (all of it when it has fewer)
FileTail(F) == ReadAt(F, SeekFromEnd(F, 4), 4)

\* what the search for the key in the tail of the file gives
Located(err, audio_len, keydata, songid, unknown, trailer) ==
    [err |-> err, audio_len |-> audio_len, keydata |-> keydata, songid |-> songid,
     unknown |-> unknown, trailer |-> trailer]

LocateError(err) == Located(err, 0, <<>>, None, None, "none")

QMCv2_get_qtag(F) ==
    Let(int_from_bytes(ReadAt(F, SeekFromEnd(F, 8), 4), "big"), LAMBDA raw_qtag_len :
    Let(SeekFromEnd(F, raw_qtag_len + 8), LAMBDA audio_len :
    Let(SplitComma(ReadAt(F, audio_len, raw_qtag_len)), LAMBDA qtag :
        IF Len(qtag) # 3 THEN LocateError("InvalidDataError")
        ELSE Let(PyInt(qtag[2]), LAMBDA songid :
                 IF songid.err # "none" THEN LocateError(songid.err)
                 ELSE Located("none", audio_len, qtag[1], Some(songid.val),
                              Some(qtag[3]), "QTag")))))

\* QMCv2.load with try_fallback=False, up to the key data being found
QMCv2_locate_key(F) ==
    Let(ReadAt(F, SeekFromEnd(F, 4), 4), LAMBDA tail :
        IF tail \in QMCv2_unsupported_file_tailer THEN LocateError("UnsupportedFileType")
        ELSE IF tail = QTagTail THEN QMCv2_get_qtag(F)
        ELSE Let(int_from_bytes(tail, "little"), LAMBDA raw_key_len :
                 IF 0 < raw_key_len /\ raw_key_len <= 768
                 THEN Let(SeekFromEnd(F, 4 + raw_key_len), LAMBDA audio_len :
                          Located("none", audio_len, ReadAt(F, audio_len, raw_key_len),
                                  None, None, "raw"))
                 ELSE LocateError("FileTypeMismatchError")))

\* the same choice with the limit at 256 instead of 300
QMCv2_load_cipher_below_256(key) ==
    IF 0 < Len(key) /\ Len(key) < 256 THEN DynamicMap_init(key) ELSE ModifiedRC4_init(key)

\* QMCv2.load: the cipher for the unwrapped key
QMCv2_load_cipher(key) ==
    IF 0 < Len(key) /\ Len(key) < 300 THEN DynamicMap_init(key) ELSE ModifiedRC4_init(key)

Loaded(err, c, key, payload, loc) ==
    [err |-> err, cipher |-> c, key |-> key, raw |-> payload, songid |-> loc.songid,
     unknown |-> loc.unknown, trailer |-> loc.trailer]

\* QMCv2.load(fileobj) with try_fallback=False on the file F
QMCv2_load_result(F) ==
    Let(QMCv2_locate_key(F), LAMBDA loc :
        IF loc.err # "none" THEN Loaded(loc.err, NoCipher, <<>>, <<>>, loc)
        ELSE Let(QMCv2_key_decrypt(loc.keydata), LAMBDA key :
                 IF key.err # "none" THEN Loaded(key.err, NoCipher, <<>>, <<>>, loc)
                 ELSE Loaded("none", QMCv2_load_cipher(key.val), key.val,
                             ReadAt(F, 0, loc.audio_len), loc)))

\* Key256Mask128.yield_mask(mask, data_offset, data_len): the bytes of the
\* 128-byte mask at the offsets data_offset .., taken modulo 128; a mask
\* that ends before one of them gives IndexError
Key256Mask128_yield_mask(mask, data_offset, data_len) ==
    IF \E k \in 0..(data_len - 1) : ((data_offset + k) % 128) + 1 > Len(mask)
    THEN Raise("IndexError")
    ELSE Ok([k \in 1..data_len |-> mask[((data_offset + k - 1) % 128) + 1]])

\* Key256Mask128(mask)
Key256Mask128_init(mask) == NewCipher("Key256Mask128", mask, 0, NoBox, <<0, 0>>)

\* one iteration of the loop of find_mflac_mask: 128 bytes are read at
\* the handle's position and tried as the mask
find_mflac_mask_step(F, t) ==
    Let(ReadAt(F, t.pos, 128), LAMBDA mask :
    Let(Key256Mask128_yield_mask(mask, t.pos, 4), LAMBDA stream :
        IF stream.err # "none" THEN [t EXCEPT !.err = stream.err]
        ELSE Let(bytesxor(ReadAt(F, 0, 4), stream.val), LAMBDA x :
                 IF x.err # "none" THEN [t EXCEPT !.err = x.err]
                 ELSE IF x.val = <<102, 76, 97, 67>> THEN [t EXCEPT !.found = Some(mask)]
                 ELSE [t EXCEPT !.pos = @ + Len(mask)])))

\* find_mflac_mask(fileobj): the mask, or None once the handle has passed
\* test_len
find_mflac_mask(F) ==
    Let(While(LAMBDA t : t.pos <= Min(32768, Len(F)) /\ t.found = None /\ t.err = "none",
              LAMBDA t : find_mflac_mask_step(F, t),
              [pos |-> 0, found |-> None, err |-> "none"], (Len(F) \div 128) + 2),
        LAMBDA t : IF t.err # "none" THEN Raise(t.err) ELSE Ok(t.found))

\* find_mgg_mask(fileobj) up to its check of the length; the search that
\* follows it is not modelled and is taken to recover nothing
find_mgg_mask(F) ==
    IF Len(F) < 256 THEN Raise("ValueError") ELSE Ok(None)

\* QMCv2.load(fileobj, try_fallback=True) on the file F
QMCv2_load_fallback_result(F) ==
    Let(FileTail(F), LAMBDA tail :
        IF tail \notin QMCv2_unsupported_file_tailer THEN QMCv2_load_result(F)
        ELSE Let(find_mflac_mask(F), LAMBDA mflac :
             Let(IF mflac.err = "none" /\ mflac.val = None THEN find_mgg_mask(F) ELSE mflac,
                 LAMBDA mask :
                     IF mask.err # "none"
                     THEN Loaded(mask.err, NoCipher, <<>>, <<>>, LocateError(mask.err))
                     ELSE IF mask.val = None
                     THEN Loaded("UnsupportedFileType", NoCipher, <<>>, <<>>,
                                 LocateError("UnsupportedFileType"))
                     ELSE Loaded("none", Key256Mask128_init(mask.val[1]), <<>>,
                                 ReadAt(F, 0, SeekFromEnd(F, 4 + (IF tail = <<37, 2, 0, 0>>
                                                                  THEN int_from_bytes(tail, "little")
                                                                  ELSE 0))),
                                 Located("none", 0, <<>>, None, None, "mask")))))

\* the qtag of QMCv2.save
QMCv2_qtag(keydata, songid, unknown) ==
    keydata \o <<44>> \o PyStr(IF songid = None THEN 0 ELSE songid[1]) \o <<44>>
            \o (IF unknown = None THEN PyStr(2) ELSE PyStrBytes(unknown[1]))

\* the additionals of QMCv2.save
QMCv2_additionals(keydata, use_qtag, songid, unknown) ==
    IF use_qtag
    THEN Let(QMCv2_qtag(keydata, songid, unknown), LAMBDA qtag :
             qtag \o int_to_bytes(Len(qtag), "big") \o QTagTail)
    ELSE keydata \o int_to_bytes(Len(keydata), "little")

\* the bytes QMCv2.save(fileobj, use_qtag=use_qtag) writes to a new file
QMCv2_save_result(payload, key, use_qtag, songid, unknown, rnd) ==
    Let(QMCv2_key_encrypt(key, rnd), LAMBDA keydata :
        IF keydata.err # "none" THEN keydata
        ELSE Ok(payload \o QMCv2_additionals(keydata.val, use_qtag, songid, unknown)))

\* the bytes Crypter.save(fileobj) writes to a new file
Crypter_save_result(payload) == Ok(payload)

-----------------------------------------------------------------------------
(* SpecCodec: one container file F, the codec object loaded from it, and    *)
(* the file that save() writes afterwards.  adaptor is the codec class;     *)
(* cipher, raw and pos are the object's cipher, payload and cursor; cx      *)
(* holds F, what load found in it, and what save wrote.                     *)

\* keys of 296 and of 300 bytes (RC4Key has 304)
Key296 == SliceFrom(RC4Key, 0, 296)

Key300 == SliceFrom(RC4Key, 0, 300)

\* the encrypted audio of the files
Payloads == BytesOfLen(BufferBytes, 0, MaxLen)

\* the file QMCv2(key=key).save(use_qtag=use_qtag, songid=songid) writes
\* once payload has been stored
QMCv2_new_file(payload, key, use_qtag, songid, rnd) ==
    QMCv2_save_result(payload, key, use_qtag, songid, None, rnd).val

\* QMCv2 files with a 16-byte key: either trailer, any payload, any wrapping
QMCv2_small_files ==
    {QMCv2_new_file(payload, DynKey, use_qtag, Some(7), rnd) :
        payload \in Payloads, use_qtag \in BOOLEAN, rnd \in RandDraws}

\* QMCv2 files whose keys have 296, 300 and 304 bytes
QMCv2_large_files ==
    {QMCv2_new_file(<<200>>, key, FALSE, None, [i \in 1..10 |-> 0]) :
        key \in {Key296, Key300, RC4Key}}

\* files QMCv2.load does not accept: a key length of 0, the tail STag, a
\* QTag of two fields, a file of two bytes, a key length of 769, a key
\* length of 16 with no key before it, a small file short of its first byte
QMCv2_bad_files ==
    {<<200, 0, 0, 0, 0>>, <<200>> \o <<83, 84, 97, 103>>,
     <<97, 44, 98>> \o int_to_bytes(3, "big") \o QTagTail, <<97, 98>>,
     <<200, 1, 3, 0, 0>>, <<16, 0, 0, 0>>}
    \cup {Tail(QMCv2_new_file(<<>>, DynKey, FALSE, None, [i \in 1..10 |-> 0]))}

\* files without a key: the tails STag and 25 02 00 00 after one byte, and
\* a file of 136 bytes whose bytes 128..131 are its first 4 bytes xor fLaC
QMCv2_keyless_files ==
    {<<200, 37, 2, 0, 0>>,
     [i \in 1..136 |-> IF i \in 129..132 THEN BitXor(i - 128, <<102, 76, 97, 67>>[i - 128])
                       ELSE IF i > 132 THEN <<83, 84, 97, 103>>[i - 132] ELSE i]}

\* QMCv2 files (one payload byte, raw-key trailer) whose wrapped 16-byte key
\* has a valid pad length and a frame with one non-zero byte among the 7
\* trailing bytes, at each of the 7 positions
QMCv2_corrupt_zero_files ==
    {Let(b64encode(SliceFrom(DynKey, 0, 8)
                   \o TC_encrypt_with_tail(
                          TencentTEAWithModeCBC_from_recipe(SliceFrom(DynKey, 0, 8)), 32,
                          SliceFrom(DynKey, 8, 16), [i \in 1..10 |-> 0], tail)),
         LAMBDA keydata : <<200>> \o keydata \o int_to_bytes(Len(keydata), "little")) :
        tail \in TeaTails \ {Zeros(TC_zero_len)}}

\* the keys of QMCv1.file_headers(), the same in both packages
QMCv1_file_headers ==
    {<<165, 6, 183, 137>>, <<138, 14, 229>>, <<60, 184>>, <<60, 185>>, <<60, 177>>,
     <<140, 45, 177, 153>>}

\* each header alone, followed by a byte, and short of its last byte
QMCv1_header_files ==
    UNION {{h, h \o <<200>>, SliceFrom(h, 0, Len(h) - 1)} : h \in QMCv1_file_headers}

CodecFiles(codec) ==
    IF codec = "QMCv2"
    THEN QMCv2_small_files \cup QMCv2_large_files \cup QMCv2_bad_files
         \cup QMCv2_keyless_files \cup QMCv2_corrupt_zero_files
    ELSE IF codec \in {"QMCv1", "takiyasha_QMCv1"}
    THEN BytesOfLen(BufferBytes, 0, MaxLen) \cup QMCv1_header_files
    ELSE BytesOfLen(BufferBytes, 0, MaxLen)

\* the file F with the handle at fpos, before load
CodecFile(F) ==
    [phase |-> "file", F |-> F, fpos |-> 0, err |-> "none", key |-> <<>>,
     trailer |-> "none", songid |-> None, unknown |-> None, use_qtag |-> FALSE,
     rnd |-> <<>>, saved |-> <<>>, try_fallback |-> FALSE]

\* load has returned: the object's state
Codec_loaded(c, payload, key, trailer, songid, unknown) ==
    /\ cipher' = c
    /\ raw' = payload
    /\ cx' = [cx EXCEPT !.phase = "loaded", !.key = key, !.trailer = trailer,
                        !.songid = songid, !.unknown = unknown]
    /\ UNCHANGED <<adaptor, pos, closed, last, shadow>>

\* load has raised: no object
Codec_failed(err) ==
    /\ cx' = [cx EXCEPT !.phase = "failed", !.err = err]
    /\ UNCHANGED streamVars

\* save has written the bytes written; the payload was read to its end
Codec_saved(written, use_qtag, rnd) ==
    /\ cx' = [cx EXCEPT !.phase = "saved", !.saved = written, !.use_qtag = use_qtag,
                        !.rnd = rnd]
    /\ pos' = Len(raw)
    /\ UNCHANGED <<adaptor, cipher, raw, closed, last, shadow>>

\* fileobj.read(n) before the codec is constructed: what an earlier attempt
\* of another codec on the same file object leaves, the 10 bytes NCM.load
\* reads for the header or the whole file
Fileobj_read ==
    /\ cx.phase = "file"
    /\ cx.fpos = 0
    /\ \E n \in {10, Len(cx.F)} :
        /\ TellAfterRead(cx.F, 0, n) > 0
        /\ cx' = [cx EXCEPT !.fpos = TellAfterRead(cx.F, 0, n)]
    /\ UNCHANGED streamVars

\* QMCv2(fileobj)
QMCv2_load ==
    /\ adaptor = "QMCv2"
    /\ cx.phase = "file"
    /\ \E r \in {QMCv2_load_result(cx.F)} :
        IF r.err = "none"
        THEN Codec_loaded(r.cipher, r.raw, r.key, r.trailer, r.songid, r.unknown)
        ELSE Codec_failed(r.err)

\* QMCv2(fileobj, try_fallback=True)
QMCv2_load_fallback ==
    /\ adaptor = "QMCv2"
    /\ cx.phase = "file"
    /\ \E r \in {QMCv2_load_fallback_result(cx.F)} :
        IF r.err = "none"
        THEN /\ cipher' = r.cipher
             /\ raw' = r.raw
             /\ cx' = [cx EXCEPT !.phase = "loaded", !.key = r.key, !.trailer = r.trailer,
                                 !.songid = r.songid, !.unknown = r.unknown,
                                 !.try_fallback = TRUE]
             /\ UNCHANGED <<adaptor, pos, closed, last, shadow>>
        ELSE /\ cx' = [cx EXCEPT !.phase = "failed", !.err = r.err, !.try_fallback = TRUE]
             /\ UNCHANGED streamVars

\* QMCv2.save(target, use_qtag=use_qtag), target a new file (of an object
\* that holds a key)
QMCv2_save ==
    /\ adaptor = "QMCv2"
    /\ cx.phase = "loaded"
    /\ cipher.kind # "Key256Mask128"
    /\ \E use_qtag \in BOOLEAN, rnd \in RandDraws :
        \E w \in {QMCv2_save_result(raw, cipher.key, use_qtag, cx.songid, cx.unknown, rnd)} :
            IF w.err = "none" THEN Codec_saved(w.val, use_qtag, rnd)
            ELSE Codec_failed(w.err)

\* QMCv1(fileobj): the payload is what the handle has left to read
QMCv1_load ==
    /\ adaptor = "QMCv1"
    /\ cx.phase = "file"
    /\ Codec_loaded(StaticMap_init, ReadAt(cx.F, cx.fpos, Len(cx.F)), <<>>, "none",
                    None, None)

\* QMCv1(fileobj) of the package takiyasha (src/src/takiyasha/qmc): what
\* the handle has left to read must start with one of the headers
QMCv1_load_takiyasha ==
    /\ adaptor = "takiyasha_QMCv1"
    /\ cx.phase = "file"
    /\ \E cipher_audio_data \in {ReadAt(cx.F, cx.fpos, Len(cx.F))} :
        IF \E header \in QMCv1_file_headers : StartsWith(cipher_audio_data, header)
        THEN Codec_loaded(StaticMap_init, cipher_audio_data, <<>>, "none", None, None)
        ELSE Codec_failed("FileTypeMismatchError")

\* QMCv1.save(target): Crypter.save
QMCv1_save ==
    /\ adaptor \in {"QMCv1", "takiyasha_QMCv1"}
    /\ cx.phase = "loaded"
    /\ Codec_saved(Crypter_save_result(raw).val, FALSE, <<>>)

\* NCMCache(fileobj): Crypter.__init__ calls NCMCache.load, which rewinds
NCMCache_load ==
    /\ adaptor = "NCMCache"
    /\ cx.phase = "file"
    /\ Codec_loaded(NCMCacheCipher_init, ReadAt(cx.F, 0, Len(cx.F)), <<>>, "none",
                    None, None)

\* NCMCache.save(target): Crypter.save
NCMCache_save ==
    /\ adaptor = "NCMCache"
    /\ cx.phase = "loaded"
    /\ Codec_saved(Crypter_save_result(raw).val, FALSE, <<>>)

InitCodec ==
    /\ adaptor \in {"QMCv2", "QMCv1", "takiyasha_QMCv1", "NCMCache"}
    /\ cx \in {CodecFile(F) : F \in CodecFiles(adaptor)}
    /\ cipher = NoCipher
    /\ raw = <<>>
    /\ pos = 0
    /\ closed = FALSE
    /\ last = NoCall
    /\ shadow = <<>>

NextCodec ==
    \/ Fileobj_read
    \/ QMCv2_load
    \/ QMCv2_load_fallback
    \/ QMCv2_save
    \/ QMCv1_load
    \/ QMCv1_load_takiyasha
    \/ QMCv1_save
    \/ NCMCache_load
    \/ NCMCache_save

SpecCodec == InitCodec /\ [][NextCodec]_vars

-----------------------------------------------------------------------------
(* Properties of the container codecs, checked under SpecCodec. *)

\* C4: a file F loaded by its codec and saved again, in the trailer layout
\* F has and with nothing else asked for, is written byte for byte as F.
C4_ContainerRoundTrip ==
    (cx.phase = "saved" /\ cx.use_qtag = (cx.trailer = "QTag")) => cx.saved = cx.F

C11_RawKeyTrailer ==
    (/\ adaptor = "QMCv2"
     /\ cx.phase # "file"
     /\ FileTail(cx.F) \notin QMCv2_unsupported_file_tailer \cup {QTagTail}) =>
        LET raw_key_len == int_from_bytes(FileTail(cx.F), "little")
            key_start == Len(cx.F) - 4 - raw_key_len
        IN  IF 0 < raw_key_len /\ raw_key_len <= 768 /\ key_start >= 0
            THEN cx.phase \in {"loaded", "saved"} =>
                    /\ raw = SliceFrom(cx.F, 0, key_start)
                    /\ Ok(cx.key) = QMCv2_key_decrypt(SliceFrom(cx.F, key_start,
                                                                Len(cx.F) - 4))
            ELSE cx.phase = "failed" /\ cx.err = "FileTypeMismatchError"

\* C12: QMCv2.load on a file whose last 4 bytes are 25 02 00 00 or STag:
\* without try_fallback it raises UnsupportedFileType; with try_fallback it
\* either builds the Key256Mask128 cipher from a recovered mask or raises
\* UnsupportedFileType, and nothing else.
C12_KeylessTrailer ==
    (/\ adaptor = "QMCv2"
     /\ cx.phase # "file"
     /\ FileTail(cx.F) \in QMCv2_unsupported_file_tailer) =>
        IF cx.try_fallback
        THEN \/ cx.phase = "loaded" /\ cipher.kind = "Key256Mask128"
             \/ cx.phase = "failed" /\ cx.err = "UnsupportedFileType"
        ELSE cx.phase = "failed" /\ cx.err = "UnsupportedFileType"

\* C30: find_mflac_mask returns on every file: a mask whose keystream turns
\* the first four bytes of the file into fLaC, or None; on a file shorter
\* than 0x8000 bytes that holds no such mask it returns None and does not
\* raise.
C30_MflacScanReturns ==
    (/\ adaptor = "QMCv2"
     /\ cx.phase \in {"loaded", "failed"}
     /\ cx.try_fallback
     /\ FileTail(cx.F) \in QMCv2_unsupported_file_tailer) =>
        LET r == find_mflac_mask(cx.F)
        IN  /\ r.err = "none"
            /\ r.val # None =>
                /\ cx.phase = "loaded"
                /\ cipher.key = r.val[1]
                /\ bytesxor(ReadAt(cx.F, 0, 4),
                            Key256Mask128_yield_mask(r.val[1], 0, 4).val).val
                       = <<102, 76, 97, 67>>

\* C18: QMCv2.save(use_qtag=True) of an object loaded from a file with a
\* QTag writes as third QTag field the bytes load read there; of an object
\* that holds no third field and no song id (a new one, or one loaded from
\* a raw-key trailer) it writes the song id 0 and the third field b'2'.
C18_QTagThirdField ==
    (adaptor = "QMCv2" /\ cx.phase = "saved" /\ cx.use_qtag) =>
        LET written == QMCv2_get_qtag(cx.saved)
        IN /\ written.err = "none"
           /\ cx.trailer = "QTag" => written.unknown = cx.unknown
           /\ cx.trailer = "raw" =>
                  written.unknown = Some(<<50>>) /\ written.songid = Some(0)

\* C24: QMCv2.load of a file whose wrapped key has a valid pad length and
\* corrupted trailing zero bytes unwraps the key all the same: load returns
\* with the key, and does not raise ValidationError.
C24_UnwrapSkipsZeroCheck ==
    (adaptor = "QMCv2" /\ cx.phase # "file" /\ cx.F \in QMCv2_corrupt_zero_files) =>
        /\ cx.phase \in {"loaded", "saved"}
        /\ cx.key = DynKey

\* C28: a codec loaded from a file object holds the payload that starts at
\* byte 0 of the file, wherever the handle was when load was called: the
\* whole file for QMCv1 and NCMCache, the bytes before the key for QMCv2.
C28_LoadReadsFromStart ==
    (adaptor \in {"QMCv1", "NCMCache", "QMCv2"} /\ cx.phase \in {"loaded", "saved"}) =>
        IF adaptor = "QMCv2" THEN raw = SliceFrom(cx.F, 0, Len(raw))
        ELSE raw = cx.F

\* C29: save leaves the stream as it was: the payload, the cipher and the
\* cursor position reported by tell() are the same after save as before it.
C29_SaveLeavesStream ==
    [][(cx.phase = "loaded" /\ cx'.phase = "saved") =>
        (raw' = raw /\ cipher' = cipher /\ pos' = pos)]_vars

\* C20: QMCv1.load succeeds when the file starts with one of the six
\* headers of QMCv1.file_headers(), and raises FileTypeMismatchError for
\* every file that starts with none of them.
C20_QMCv1MagicPrefix ==
    (adaptor \in {"QMCv1", "takiyasha_QMCv1"} /\ cx.phase # "file") =>
        IF \E header \in QMCv1_file_headers : StartsWith(cx.F, header)
        THEN cx.phase \in {"loaded", "saved"}
        ELSE cx.phase = "failed" /\ cx.err = "FileTypeMismatchError"

-----------------------------------------------------------------------------
(* SpecSniff: sniff_audio_file on a file object.  raw is the file's bytes,  *)
(* pos the handle's position; cx holds the position before the call and     *)
(* the extension returned.                                                  *)

\* audio_file_headers(), in the order of the dict: each extension with
\* whether re.search(regex, header) matches ('.' matches any byte but \n)
audio_file_headers(header) ==
    << <<"flac", StartsWith(header, <<102, 76, 97, 67>>)>>,
       <<"ogg", StartsWith(header, <<79, 103, 103, 83>>)>>,
       <<"tta", StartsWith(header, <<84, 84, 65>>)>>,
       <<"ape", StartsWith(header, <<77, 65, 67, 32>>)>>,
       <<"mp3", Len(header) >= 2 /\ header[1] = 255 /\ header[2] \in {242, 243, 251}>>,
       <<"aac", StartsWith(header, <<255, 241>>)>>,
       <<"dff", StartsWith(header, <<70, 82, 77, 56>>)>>,
       <<"wav", StartsWith(header, <<82, 73, 70, 70>>)>>,
       <<"wma", StartsWith(header, <<48, 38, 178, 117, 142, 102, 207, 17,
                                     166, 217, 0, 170, 0, 98, 206, 108>>)>>,
       <<"m4a", /\ Len(header) >= 8
                /\ \A i \in 1..4 : header[i] # 10
                /\ SliceFrom(header, 4, 8) = <<102, 116, 121, 112>>>> >>

\* BitPaddedInt(value) for bytes, bits=7, bigendian=True
BitPaddedInt(value) ==
    ForRange(LAMBDA n, i : n + (value[Len(value) - i] % 128) * Pow2(7 * i), 0, 0, Len(value))

\* the header sniff_audio_file matches against: the first 16 bytes, or the
\* 16 bytes after the ID3 tag
sniff_header(data) ==
    IF StartsWith(Slice(data, 0, 16), <<73, 68, 51>>)
    THEN Let(10 + BitPaddedInt(Slice(data, 6, 10)), LAMBDA size :
             Slice(data, size, size + 16))
    ELSE Slice(data, 0, 16)

\* the loop that ends sniff_audio_file: the first extension whose regex
\* matches header
sniff_match(header) ==
    Let(SelectSeq(audio_file_headers(header), LAMBDA e : e[2]), LAMBDA hits :
        IF hits = <<>> THEN None ELSE Some(hits[1][1]))

\* sniff_audio_file(fileobj) on a file object whose bytes are data
sniff_audio_file(data) == sniff_match(sniff_header(data))

\* the prefixes of the table, one per extension (three for mp3), and two
\* m4a headers: a box size of 32 and a box size of 2560
SniffPrefixes ==
    {<<102, 76, 97, 67>>, <<79, 103, 103, 83>>, <<84, 84, 65>>, <<77, 65, 67, 32>>,
     <<255, 242>>, <<255, 243>>, <<255, 251>>, <<255, 241>>, <<70, 82, 77, 56>>,
     <<82, 73, 70, 70>>,
     <<48, 38, 178, 117, 142, 102, 207, 17, 166, 217, 0, 170, 0, 98, 206, 108>>,
     <<0, 0, 0, 32, 102, 116, 121, 112>>, <<0, 0, 10, 0, 102, 116, 121, 112>>}

\* an ID3v2 header announcing a tag of size bytes (size < 128), and the tag
ID3Tag(size) == <<73, 68, 51, 4, 0, 0, 0, 0, 0, size>> \o Zeros(size)

\* the files sniffed: each prefix alone and with continuations, each prefix
\* after an ID3 tag, and files no pattern matches
SniffFiles ==
    {P \o cont : P \in SniffPrefixes, cont \in {<<>>, <<0>>, <<10, 255, 77>>}}
    \cup {ID3Tag(size) \o P : size \in {0, 3}, P \in SniffPrefixes}
    \cup {<<>>, <<255>>, <<0, 102, 76, 97, 67>>, <<73, 68, 51>>, ID3Tag(3), ID3Tag(0) \o ID3Tag(0)}

\* fileobj.seek(p, 0) before the call
Sniff_seek ==
    /\ adaptor = "sniff"
    /\ cx.phase = "file"
    /\ \E p \in {0, 1, Len(raw)} : pos' = p
    /\ UNCHANGED <<adaptor, cipher, raw, closed, last, shadow, cx>>

\* sniff_audio_file(fileobj): the handle is left after the last read
Sniff_call ==
    /\ adaptor = "sniff"
    /\ cx.phase = "file"
    /\ cx' = [phase |-> "sniffed", p0 |-> pos, result |-> sniff_audio_file(raw)]
    /\ pos' = (IF StartsWith(raw, <<73, 68, 51>>)
               THEN Max(10 + BitPaddedInt(Slice(raw, 6, 10)),
                        Min(26 + BitPaddedInt(Slice(raw, 6, 10)), Len(raw)))
               ELSE Min(16, Len(raw)))
    /\ UNCHANGED <<adaptor, cipher, raw, closed, last, shadow>>

InitSniff ==
    /\ adaptor = "sniff"
    /\ cipher = NoCipher
    /\ raw \in SniffFiles
    /\ pos = 0
    /\ closed = FALSE
    /\ last = NoCall
    /\ shadow = <<>>
    /\ cx = [phase |-> "file", p0 |-> 0, result |-> None]

NextSniff ==
    \/ Sniff_seek
    \/ Sniff_call

SpecSniff == InitSniff /\ [][NextSniff]_vars

-----------------------------------------------------------------------------
(* Properties of the sniffer, checked under SpecSniff. *)

\* the extensions whose prefix in the table of the statement starts data
\* (for m4a: any 4 bytes, then ftyp)
C13_TableExtensions(data) ==
    {e \in {"flac", "ogg", "tta", "ape", "mp3", "aac", "dff", "wav", "wma", "m4a"} :
        IF e = "m4a"
        THEN Len(data) >= 8 /\ SliceFrom(data, 4, 8) = <<102, 116, 121, 112>>
        ELSE \E i \in 1..9 : audio_file_headers(data)[i] = <<e, TRUE>>}

\* C13: sniff_audio_file returns the extension of the table for a file that
\* starts with one of its prefixes, whatever follows; for a file that starts
\* with an ID3v2 header it returns what it returns for the bytes after the
\* tag; it returns None when nothing matches; the handle's position before
\* the call has no influence.
C13_Sniffing ==
    (adaptor = "sniff" /\ cx.phase = "sniffed") =>
        /\ cx.result = sniff_audio_file(raw)
        /\ IF StartsWith(raw, <<73, 68, 51>>)
           THEN cx.result = sniff_audio_file(
                    Slice(raw, 10 + BitPaddedInt(Slice(raw, 6, 10)), Len(raw)))
           ELSE /\ \A e \in C13_TableExtensions(raw) : cx.result = Some(e)
                /\ C13_TableExtensions(raw) = {} => cx.result = None

-----------------------------------------------------------------------------
(* The NCM container (ncm.py).  AES comes from the pyaes package, which the *)
(* library only calls: the block function here is a bijection on 16-byte    *)
(* blocks standing for it, and what is checked does not depend on which.    *)

\* AESModeOfOperationECB(key).encrypt(b), b a block of 16 bytes
AESModeOfOperationECB_encrypt(key, b) ==
    [i \in 1..16 |-> (b[i] + key[i] + i) % 256]

\* AESModeOfOperationECB(key).decrypt(b)
AESModeOfOperationECB_decrypt(key, b) ==
    [i \in 1..16 |-> (b[i] + 512 - key[i] - i) % 256]

\* pyaes.util.append_PKCS7_padding
append_PKCS7_padding(data) ==
    data \o [i \in 1..(16 - (Len(data) % 16)) |-> 16 - (Len(data) % 16)]

\* pyaes.util.strip_PKCS7_padding: data[:-pad], which is empty for pad = 0
strip_PKCS7_padding(data) ==
    IF Len(data) % 16 # 0 THEN Raise("ValueError")
    ELSE IF data = <<>> THEN Raise("IndexError")
    ELSE IF data[Len(data)] > 16 THEN Raise("ValueError")
    ELSE IF data[Len(data)] = 0 THEN Ok(<<>>)
    ELSE Ok(SliceFrom(data, 0, Len(data) - data[Len(data)]))

\* StreamedAESWithModeECB(key).encrypt(plaindata)
StreamedAESWithModeECB_encrypt(key, plaindata) ==
    Let(append_PKCS7_padding(plaindata), LAMBDA padded :
        [i \in 1..Len(padded) |->
            AESModeOfOperationECB_encrypt(
                key, SliceFrom(padded, 16 * ((i - 1) \div 16), 16 * ((i - 1) \div 16) + 16)
            )[((i - 1) % 16) + 1]])

\* StreamedAESWithModeECB(key).decrypt(cipherdata): pyaes refuses a last
\* block of fewer than 16 bytes
StreamedAESWithModeECB_decrypt(key, cipherdata) ==
    IF Len(cipherdata) % 16 # 0 THEN Raise("ValueError")
    ELSE strip_PKCS7_padding(
             [i \in 1..Len(cipherdata) |->
                 AESModeOfOperationECB_decrypt(
                     key, SliceFrom(cipherdata, 16 * ((i - 1) \div 16),
                                    16 * ((i - 1) \div 16) + 16)
                 )[((i - 1) % 16) + 1]])

\* NCM.core_key() and NCM.meta_key()
NCM_core_key == <<104, 122, 72, 82, 65, 109, 115, 111, 53, 107, 73, 110, 98, 97, 120, 87>>

NCM_meta_key == <<35, 49, 52, 108, 106, 107, 95, 33, 92, 93, 38, 48, 85, 60, 39, 40>>

\* b'CTENFDAM', the only key of NCM.file_headers()
NCM_file_headers == <<67, 84, 69, 78, 70, 68, 65, 77>>

\* b'neteasecloudmusic', b"163 key(Don't modify):" and b'music:'
NCM_masterkey_prefix ==
    <<110, 101, 116, 101, 97, 115, 101, 99, 108, 111, 117, 100, 109, 117, 115, 105, 99>>

NCM_identifier_prefix ==
    <<49, 54, 51, 32, 107, 101, 121, 40, 68, 111, 110, 39, 116, 32, 109, 111, 100, 105,
      102, 121, 41, 58>>

NCM_tagdata_prefix == <<109, 117, 115, 105, 99, 58>>

\* bytes(b ^ n for b in data)
XorEach(data, n) == [i \in 1..Len(data) |-> BitXor(data[i], n)]

\* the tag dictionary of the model is the empty one, {}: json.dumps gives
\* b'{}', and json.loads gives it back from b'{}' and refuses anything else
\* the model hands it
EmptyDict == [keys |-> {}]

json_dumps(tagdata) == <<123, 125>>

json_loads(s) == IF s = <<123, 125>> THEN Ok(EmptyDict) ELSE Raise("JSONDecodeError")

\* what NCM.load gives
NCM_loaded(err, c, payload, tagdata, identifier, coverdata) ==
    [err |-> err, cipher |-> c, key |-> c.key, raw |-> payload, tagdata |-> tagdata,
     identifier |-> identifier, coverdata |-> coverdata]

NCM_load_failed(err) == NCM_loaded(err, NoCipher, <<>>, EmptyDict, <<>>, <<>>)

\* NCM.load from the cover data on: p is the position after the tag data
NCM_load_cover(F, p, masterkey, tagdata, identifier) ==
    Let(int_from_bytes(ReadAt(F, p + 5, 4), "little"), LAMBDA cover_alloc :
    Let(TellAfterRead(F, p + 5, 4), LAMBDA p_size :
    Let(int_from_bytes(ReadAt(F, p_size, 4), "little"), LAMBDA cover_size :
    Let(TellAfterRead(F, TellAfterRead(F, p_size, 4), cover_size), LAMBDA p_cover :
        IF masterkey = <<>> THEN NCM_load_failed("ZeroDivisionError")
        ELSE NCM_loaded("none", NCMRC4Cipher_init(masterkey),
                        ReadAt(F, Max(p_cover + (cover_alloc - cover_size), 0), Len(F)),
                        tagdata, identifier,
                        ReadAt(F, TellAfterRead(F, p_size, 4), cover_size))))))

\* NCM.load from the tag data on: p is the position after the master key
NCM_load_tagdata(F, p, masterkey) ==
    Let(int_from_bytes(ReadAt(F, p, 4), "little"), LAMBDA raw_encrypted_tagdata_len :
    Let(XorEach(ReadAt(F, TellAfterRead(F, p, 4), raw_encrypted_tagdata_len), 99),
        LAMBDA raw_encrypted_tagdata :
    Let(b64decode(Slice(raw_encrypted_tagdata, 22, Len(raw_encrypted_tagdata))),
        LAMBDA encrypted_tagdata :
        IF encrypted_tagdata.err # "none" THEN NCM_load_failed(encrypted_tagdata.err)
        ELSE Let(StreamedAESWithModeECB_decrypt(NCM_meta_key, encrypted_tagdata.val),
                 LAMBDA plain_tagdata :
                 IF plain_tagdata.err # "none" THEN NCM_load_failed(plain_tagdata.err)
                 ELSE Let(json_loads(Slice(plain_tagdata.val, 6, Len(plain_tagdata.val))),
                          LAMBDA tagdata :
                          IF tagdata.err # "none" THEN NCM_load_failed(tagdata.err)
                          ELSE IF \E i \in 1..Len(raw_encrypted_tagdata) :
                                      raw_encrypted_tagdata[i] >= 128
                          THEN NCM_load_failed("UnicodeDecodeError")
                          ELSE NCM_load_cover(
                                   F, TellAfterRead(F, TellAfterRead(F, p, 4),
                                                    raw_encrypted_tagdata_len),
                                   masterkey, tagdata.val, raw_encrypted_tagdata))))))

\* NCM.load(fileobj) on the file F, skip_tagdata=False
NCM_load_result(F) ==
    IF ~StartsWith(ReadAt(F, 0, 10), NCM_file_headers)
    THEN NCM_load_failed("FileTypeMismatchError")
    ELSE Let(int_from_bytes(ReadAt(F, 10, 4), "little"), LAMBDA encrypted_masterkey_len :
         Let(StreamedAESWithModeECB_decrypt(
                 NCM_core_key, XorEach(ReadAt(F, 14, encrypted_masterkey_len), 100)),
             LAMBDA masterkey :
             IF masterkey.err # "none" THEN NCM_load_failed(masterkey.err)
             ELSE NCM_load_tagdata(
                      F, TellAfterRead(F, TellAfterRead(F, TellAfterRead(F, 0, 10), 4),
                                       encrypted_masterkey_len),
                      Slice(masterkey.val, 17, Len(masterkey.val)))))

\* NCM.load(fileobj, skip_tagdata=True) from the tag data on: p is the
\* position after the master key; the tag data and the cover are stepped
\* over with seek(n, 1)
NCM_load_skipping(F, p, masterkey) ==
    Let(int_from_bytes(ReadAt(F, p, 4), "little"), LAMBDA raw_encrypted_tagdata_len :
    Let(TellAfterRead(F, p, 4) + raw_encrypted_tagdata_len + 5, LAMBDA p_alloc :
    Let(int_from_bytes(ReadAt(F, p_alloc, 4), "little"), LAMBDA cover_alloc :
        IF masterkey = <<>> THEN NCM_load_failed("ZeroDivisionError")
        ELSE NCM_loaded("none", NCMRC4Cipher_init(masterkey),
                        ReadAt(F, TellAfterRead(F, p_alloc, 4) + cover_alloc, Len(F)),
                        EmptyDict, <<>>, <<>>))))

\* NCM.load(fileobj, skip_tagdata=True) on the file F
NCM_load_skip_result(F) ==
    IF ~StartsWith(ReadAt(F, 0, 10), NCM_file_headers)
    THEN NCM_load_failed("FileTypeMismatchError")
    ELSE Let(int_from_bytes(ReadAt(F, 10, 4), "little"), LAMBDA encrypted_masterkey_len :
         Let(StreamedAESWithModeECB_decrypt(
                 NCM_core_key, XorEach(ReadAt(F, 14, encrypted_masterkey_len), 100)),
             LAMBDA masterkey :
             IF masterkey.err # "none" THEN NCM_load_failed(masterkey.err)
             ELSE NCM_load_skipping(
                      F, TellAfterRead(F, TellAfterRead(F, TellAfterRead(F, 0, 10), 4),
                                       encrypted_masterkey_len),
                      Slice(masterkey.val, 17, Len(masterkey.val)))))

\* the same bytes without the five bytes that seek(5, 1) leaves
NCM_save_result_without_gap(payload, key, tagdata, coverdata) ==
    Let(XorEach(StreamedAESWithModeECB_encrypt(NCM_core_key, NCM_masterkey_prefix \o key),
                100), LAMBDA encrypted_masterkey :
    Let(XorEach(NCM_identifier_prefix
                \o b64encode(StreamedAESWithModeECB_encrypt(
                                 NCM_meta_key, NCM_tagdata_prefix \o json_dumps(tagdata))),
                99), LAMBDA raw_encrypted_tagdata :
        NCM_file_headers \o <<0, 0>>
        \o int_to_bytes(Len(encrypted_masterkey), "little") \o encrypted_masterkey
        \o int_to_bytes(Len(raw_encrypted_tagdata), "little") \o raw_encrypted_tagdata
        \o int_to_bytes(Len(coverdata), "little") \o int_to_bytes(Len(coverdata), "little")
        \o coverdata \o payload))

\* the bytes NCM.save(fileobj) writes to a new file: seek(5, 1) leaves five
\* zero bytes, and cover_alloc and cover_size are both len(coverdata)
NCM_save_result(payload, key, tagdata, coverdata) ==
    Let(XorEach(StreamedAESWithModeECB_encrypt(NCM_core_key, NCM_masterkey_prefix \o key),
                100), LAMBDA encrypted_masterkey :
    Let(XorEach(NCM_identifier_prefix
                \o b64encode(StreamedAESWithModeECB_encrypt(
                                 NCM_meta_key, NCM_tagdata_prefix \o json_dumps(tagdata))),
                99), LAMBDA raw_encrypted_tagdata :
        NCM_file_headers \o <<0, 0>>
        \o int_to_bytes(Len(encrypted_masterkey), "little") \o encrypted_masterkey
        \o int_to_bytes(Len(raw_encrypted_tagdata), "little") \o raw_encrypted_tagdata
        \o Zeros(5)
        \o int_to_bytes(Len(coverdata), "little") \o int_to_bytes(Len(coverdata), "little")
        \o coverdata \o payload))

-----------------------------------------------------------------------------
(* SpecOpen: openfile (libtakiyasha/__init__.py) on one file.  cx.F is the  *)
(* file and cx.order the order in which the set of classes is iterated;     *)
(* after the call cx holds what openfile did, and cipher, raw and pos are   *)
(* those of the object it returned.                                         *)

\* the values of extensions_crypters()
Crypters == {"QMCv1", "QMCv2", "NCM", "NCMCache"}

\* tuple(set(extensions_crypters().values())): a set of classes is iterated
\* in an order the process fixes, any of the 24
CrypterOrders == {o \in [1..4 -> Crypters] : \A i, j \in 1..4 : i # j => o[i] # o[j]}

\* the exception classes with only the mismatch among them
TakiyashaException_only_mismatch == {"FileTypeMismatchError"}

\* the classes of exceptions.py, all derived from TakiyashaException
TakiyashaException ==
    {"TakiyashaException", "DecryptException", "FileTypeMismatchError",
     "UnsupportedFileType", "InvalidDataError", "ValidationError"}

\* where QMCv2.load leaves the handle of the file object over F: after the
\* payload when it succeeds, else after the last read it made
QMCv2_load_tell(F, err, payload) ==
    IF err = "none" THEN Len(payload)
    ELSE IF FileTail(F) = QTagTail
    THEN Let(int_from_bytes(ReadAt(F, SeekFromEnd(F, 8), 4), "big"), LAMBDA raw_qtag_len :
             TellAfterRead(F, SeekFromEnd(F, raw_qtag_len + 8), raw_qtag_len))
    ELSE IF FileTail(F) \in QMCv2_unsupported_file_tailer \/ err = "FileTypeMismatchError"
    THEN Len(F)
    ELSE Let(int_from_bytes(FileTail(F), "little"), LAMBDA raw_key_len :
             TellAfterRead(F, SeekFromEnd(F, 4 + raw_key_len), raw_key_len))

\* what crypter_cls(filething) gives and where it leaves the handle
Attempt(err, c, payload, tell) == [err |-> err, cipher |-> c, raw |-> payload, tell |-> tell]

\* crypter_cls(filething) for the file F with the handle at fpos: QMCv1.load
\* reads from where the handle is, the other three seek first
openfile_attempt(cls, F, fpos) ==
    CASE cls = "QMCv1" ->
             Attempt("none", StaticMap_init, ReadAt(F, fpos, Len(F)), Max(fpos, Len(F)))
      [] cls = "NCMCache" -> Attempt("none", NCMCacheCipher_init, F, Len(F))
      [] cls = "QMCv2" ->
             Let(QMCv2_load_result(F), LAMBDA r :
                 Attempt(r.err, r.cipher, r.raw, QMCv2_load_tell(F, r.err, r.raw)))
      [] cls = "NCM" ->
             Let(NCM_load_result(F), LAMBDA r :
                 Attempt(r.err, r.cipher, r.raw,
                         IF r.err = "none" THEN Len(F) ELSE TellAfterRead(F, 0, 10)))

\* sniff_audio_file(crypter): Crypter.read decrypts what it reads at the
\* offset it reads it from
sniff_crypter(c, payload) ==
    Let(Decrypt(c, Slice(payload, 0, 16), 0), LAMBDA header :
        IF header.err # "none" THEN header
        ELSE IF ~StartsWith(header.val, <<73, 68, 51>>) THEN Ok(sniff_match(header.val))
        ELSE Let(10 + BitPaddedInt(Slice(header.val, 6, 10)), LAMBDA size :
             Let(Decrypt(c, Slice(payload, size, size + 16), size), LAMBDA after_tag :
                 IF after_tag.err # "none" THEN after_tag
                 ELSE Ok(sniff_match(after_tag.val)))))

\* what openfile did: ret is "crypter", "None" or "raised"; tried lists the
\* classes it constructed, each with the exception its constructor raised
\* ("none" when it raised nothing)
Opened(ret, err, cls, c, payload, tried) ==
    [ret |-> ret, err |-> err, cls |-> cls, cipher |-> c, raw |-> payload, tried |-> tried]

\* the loop of openfile over the classes todo; a path is opened anew by
\* each class, a file object keeps its position from one to the next
RECURSIVE openfile_probe(_, _, _, _, _)
openfile_probe(F, fpos, is_path, todo, tried) ==
    IF todo = <<>> THEN Opened("None", "none", "none", NoCipher, <<>>, tried)
    ELSE Let(openfile_attempt(Head(todo), F, IF is_path THEN 0 ELSE fpos), LAMBDA a :
         Let(Append(tried, <<Head(todo), a.err>>), LAMBDA tried1 :
             IF a.err \in TakiyashaException
             THEN openfile_probe(F, a.tell, is_path, Tail(todo), tried1)
             ELSE IF a.err # "none"
             THEN Opened("raised", a.err, Head(todo), NoCipher, <<>>, tried1)
             ELSE Let(sniff_crypter(a.cipher, a.raw), LAMBDA sniff_result :
                      IF sniff_result.err # "none"
                      THEN Opened("raised", sniff_result.err, Head(todo), NoCipher, <<>>,
                                  tried1)
                      ELSE IF sniff_result.val # None
                      THEN Opened("crypter", "none", Head(todo), a.cipher, a.raw, tried1)
                      ELSE openfile_probe(F, a.tell, is_path, Tail(todo), tried1))))

\* openfile(filething, probe_content): ext is the class choose_crypter
\* finds for the extension of a path, "none" when it finds none
openfile(F, is_path, ext, probe_content, order) ==
    IF is_path /\ ext # "none"
    THEN Let(openfile_attempt(ext, F, 0), LAMBDA a :
             IF a.err # "none"
             THEN Opened("raised", a.err, ext, NoCipher, <<>>, <<<<ext, a.err>>>>)
             ELSE Opened("crypter", "none", ext, a.cipher, a.raw, <<<<ext, "none">>>>))
    ELSE IF ~is_path \/ probe_content
    THEN openfile_probe(F, 0, is_path, order, <<>>)
    ELSE Opened("None", "none", "none", NoCipher, <<>>, <<>>)

\* b'fLaC' and four bytes of a FLAC stream
FlacAudio == <<102, 76, 97, 67, 0, 0, 0, 34>>

\* the audio FlacAudio as each codec stores it, and twelve bytes of it as
\* QMCv1 stores them
OpenAudioFiles ==
    {StaticMap_decrypt(FlacAudio, 0).val,
     StaticMap_decrypt(FlacAudio \o Zeros(4), 0).val,
     NCMCacheCipher_decrypt(FlacAudio, 0).val,
     QMCv2_new_file(Decrypt(DynCipher, FlacAudio, 0).val, DynKey, FALSE, None,
                    [i \in 1..10 |-> 0]),
     NCM_save_result(Decrypt(NcmCipher, FlacAudio, 0).val, NcmKey, EmptyDict, <<>>)}

\* files no codec gives audio for: the empty file, one byte, the audio
\* itself, a key length of 16 or 17 with no key before it, the tail
\* 25 02 00 00, a QTag of one field, and the NCM header alone
OpenOtherFiles ==
    {<<>>, <<200>>, FlacAudio, <<16, 0, 0, 0>>, <<17, 0, 0, 0>>, <<200, 37, 2, 0, 0>>,
     <<0, 0, 0, 0>> \o QTagTail, NCM_file_headers}

OpenFiles == OpenAudioFiles \cup OpenOtherFiles

\* openfile has returned or raised
Openfile_done(is_path, ext, probe_content, r) ==
    /\ cx' = [phase |-> "done", F |-> cx.F, order |-> cx.order, is_path |-> is_path,
              ext |-> ext, probe_content |-> probe_content, ret |-> r.ret, err |-> r.err,
              cls |-> r.cls, tried |-> r.tried]
    /\ cipher' = r.cipher
    /\ raw' = r.raw
    /\ pos' = 0
    /\ UNCHANGED <<adaptor, closed, last, shadow>>

\* openfile(fileobj)
Openfile_fileobj ==
    /\ adaptor = "openfile"
    /\ cx.phase = "file"
    /\ \E probe_content \in BOOLEAN :
        \E r \in {openfile(cx.F, FALSE, "none", probe_content, cx.order)} :
            Openfile_done(FALSE, "none", probe_content, r)

\* openfile(path, probe_content=probe_content), the file at path being F
Openfile_path ==
    /\ adaptor = "openfile"
    /\ cx.phase = "file"
    /\ \E ext \in Crypters \cup {"none"}, probe_content \in BOOLEAN :
        \E r \in {openfile(cx.F, TRUE, ext, probe_content, cx.order)} :
            Openfile_done(TRUE, ext, probe_content, r)

InitOpen ==
    /\ adaptor = "openfile"
    /\ cipher = NoCipher
    /\ raw = <<>>
    /\ pos = 0
    /\ closed = FALSE
    /\ last = NoCall
    /\ shadow = <<>>
    /\ \E F \in OpenFiles, order \in CrypterOrders :
        cx = [phase |-> "file", F |-> F, order |-> order, is_path |-> FALSE,
              ext |-> "none", probe_content |-> TRUE, ret |-> "none", err |-> "none",
              cls |-> "none", tried |-> <<>>]

NextOpen ==
    \/ Openfile_fileobj
    \/ Openfile_path

SpecOpen == InitOpen /\ [][NextOpen]_vars

-----------------------------------------------------------------------------
(* Properties of openfile, checked under SpecOpen. *)

\* openfile went through the classes: it was given a file object, or a
\* path whose extension is of no class
C14_Probed == ~cx.is_path \/ cx.ext = "none"

\* C14: when the extension selects no codec or the input is a file object,
\* openfile returns a stream only if that codec loaded the file and the
\* sniffer recognizes its decrypted first bytes, the stream is at offset 0,
\* and openfile returns None, never raising, when no codec satisfies both,
\* for every input file, short ones included.
C14_FormatDispatch ==
    (adaptor = "openfile" /\ cx.phase = "done" /\ C14_Probed) =>
        /\ cx.ret \in {"crypter", "None"}
        /\ cx.ret = "crypter" =>
               /\ cx.tried[Len(cx.tried)] = <<cx.cls, "none">>
               /\ sniff_crypter(cipher, raw).val # None
               /\ pos = 0

\* C15 as stated: while probing, only FileTypeMismatchError is swallowed:
\* every class tried before another one raised it or nothing, and any other
\* exception of a constructor is raised by openfile.
C15_OnlyMismatchSwallowed ==
    (adaptor = "openfile" /\ cx.phase = "done" /\ C14_Probed) =>
        \A i \in 1..Len(cx.tried) :
            cx.tried[i][2] \notin {"none", "FileTypeMismatchError"} =>
                i = Len(cx.tried) /\ cx.ret = "raised" /\ cx.err = cx.tried[i][2]

\* C15 amended: while probing, an exception of exceptions.py raised by a
\* constructor (FileTypeMismatchError, UnsupportedFileType, InvalidDataError,
\* ValidationError) is swallowed and the next class is tried; any other
\* exception of a constructor is raised by openfile and no further class is
\* tried.
C15_LibraryErrorsSwallowed ==
    (adaptor = "openfile" /\ cx.phase = "done" /\ C14_Probed) =>
        \A i \in 1..Len(cx.tried) :
            IF cx.tried[i][2] \in {"FileTypeMismatchError", "UnsupportedFileType",
                                   "InvalidDataError", "ValidationError"}
            THEN \/ i < Len(cx.tried)
                 \/ i = 4 /\ cx.ret = "None"
            ELSE cx.tried[i][2] # "none" =>
                     i = Len(cx.tried) /\ cx.ret = "raised" /\ cx.err = cx.tried[i][2]

\* openfile swallowed an UnsupportedFileType and an InvalidDataError and
\* went on, and raised an exception that is not of the library
C15_Witness ==
    /\ adaptor = "openfile" /\ cx.phase = "done" /\ C14_Probed
    /\ \/ \E i \in 1..(Len(cx.tried) - 1) : cx.tried[i][2] = "UnsupportedFileType"
       \/ \E i \in 1..(Len(cx.tried) - 1) : cx.tried[i][2] = "InvalidDataError"
       \/ cx.ret = "raised" /\ cx.err = "binascii.Error"

-----------------------------------------------------------------------------
(* SpecNCM: an NCM object created empty, written to, saved, and the saved   *)
(* bytes loaded into a second object.  Until the load cipher, raw and pos   *)
(* are those of the first object, afterwards those of the second; cx keeps  *)
(* the key and the plaintext of the first and the bytes save wrote.         *)

\* the right part of a generated key (ncm.py 117)
NCM_key_right ==
    <<69, 55, 102, 84, 52, 57, 120, 55, 100, 111, 102, 57, 79, 75, 67, 103, 103, 57,
      99, 100, 118, 104, 69, 117, 101, 122, 121, 51, 105, 90, 67, 76, 49, 110, 70, 118,
      66, 70, 100, 49, 84, 52, 117, 83, 107, 116, 65, 74, 75, 109, 119, 90, 88, 115,
      105, 106, 80, 98, 105, 106, 108, 105, 105, 111, 110, 86, 85, 88, 88, 103, 57, 112,
      108, 84, 98, 88, 69, 99, 108, 65, 69, 57, 76, 98>>

\* the keys: two given by the caller, of 1 and 16 bytes, and keys as
\* NCM() generates them, 27 or 29 digits followed by NCM_key_right
NCMKeys ==
    {<<107>>, NcmKey,
     [i \in 1..27 |-> 48 + ((7 * i) % 10)] \o NCM_key_right,
     [i \in 1..29 |-> 48 + ((3 * i + 1) % 10)] \o NCM_key_right}

\* the plaintexts written: up to MaxLen bytes, and 300 and 4096 zero bytes
NCMPlaintexts == BytesOfLen({0, 200}, 0, MaxLen) \cup {Zeros(300), Zeros(4096)}

\* ncm.write(P) on the new object, its cursor at 0 (Crypter.write)
NCM_write ==
    /\ adaptor = "NCM"
    /\ cx.phase = "new"
    /\ \E P \in NCMPlaintexts :
        \E e \in {Encrypt(cipher, P, pos, <<>>)} :
            /\ raw' = e.val
            /\ pos' = Len(P)
            /\ cx' = [cx EXCEPT !.phase = "written", !.P = P]
    /\ UNCHANGED <<adaptor, cipher, closed, last, shadow>>

\* ncm.save(target), target a new file: the payload is read to its end
NCM_save ==
    /\ adaptor = "NCM"
    /\ cx.phase \in {"new", "written"}
    /\ cx' = [cx EXCEPT !.phase = "saved",
                        !.saved = NCM_save_result(raw, cipher.key, cx.tagdata, <<>>)]
    /\ pos' = Len(raw)
    /\ UNCHANGED <<adaptor, cipher, raw, closed, last, shadow>>

\* NCM(io.BytesIO(saved)): a second object
NCM_load ==
    /\ adaptor = "NCM"
    /\ cx.phase = "saved"
    /\ \E r \in {NCM_load_result(cx.saved)} :
        /\ cx' = [cx EXCEPT !.phase = "loaded", !.err = r.err, !.loaded_tagdata = r.tagdata]
        /\ cipher' = r.cipher
        /\ raw' = r.raw
    /\ pos' = 0
    /\ UNCHANGED <<adaptor, closed, last, shadow>>

\* NCM(io.BytesIO(saved), skip_tagdata=True): a second object
NCM_load_skip_tagdata ==
    /\ adaptor = "NCM"
    /\ cx.phase = "saved"
    /\ \E r \in {NCM_load_skip_result(cx.saved)} :
        /\ cx' = [cx EXCEPT !.phase = "loaded skipping", !.err = r.err,
                            !.loaded_tagdata = r.tagdata]
        /\ cipher' = r.cipher
        /\ raw' = r.raw
    /\ pos' = 0
    /\ UNCHANGED <<adaptor, closed, last, shadow>>

\* read() on the second object, from offset 0 (Crypter.read)
NCM_read ==
    /\ adaptor = "NCM"
    /\ cx.phase = "loaded"
    /\ cx.err = "none"
    /\ cx' = [cx EXCEPT !.phase = "read", !.read = Decrypt(cipher, raw, pos)]
    /\ pos' = Len(raw)
    /\ UNCHANGED <<adaptor, cipher, raw, closed, last, shadow>>

\* NCM(key=key), or NCM() with key the key it generated
InitNCM ==
    /\ adaptor = "NCM"
    /\ \E key \in NCMKeys :
        /\ cipher = NCMRC4Cipher_init(key)
        /\ cx = [phase |-> "new", key |-> key, P |-> <<>>, tagdata |-> EmptyDict,
                 saved |-> <<>>, err |-> "none", loaded_tagdata |-> EmptyDict,
                 read |-> NoResult]
    /\ raw = <<>>
    /\ pos = 0
    /\ closed = FALSE
    /\ last = NoCall
    /\ shadow = <<>>

NextNCM ==
    \/ NCM_write
    \/ NCM_save
    \/ NCM_load
    \/ NCM_load_skip_tagdata
    \/ NCM_read

SpecNCM == InitNCM /\ [][NextNCM]_vars

-----------------------------------------------------------------------------
(* Properties of the NCM container, checked under SpecNCM. *)

\* C19: an empty NCM created with a key (given, or generated), written to
\* from offset 0 with a plaintext P and saved, loads again from the saved
\* bytes: the second object has the key of the first, the tag dictionary of
\* the first (the identifier aside), and read() from offset 0 returns P.
C19_NCMRoundTrip ==
    (adaptor = "NCM" /\ cx.phase \in {"loaded", "read"}) =>
        /\ cx.err = "none"
        /\ cipher.key = cx.key
        /\ cx.loaded_tagdata = cx.tagdata
        /\ cx.phase = "read" => cx.read = Ok(cx.P)

\* a key as NCM() generates it, a plaintext longer than the 256-byte
\* keystream, saved, loaded and read back
C19_Witness ==
    /\ adaptor = "NCM"
    /\ cx.phase = "read"
    /\ Len(cx.key) > 100
    /\ Len(cx.P) > 256
    /\ Len(cx.saved) > Len(cx.P) + 200

\* C27: for a file NCM.load accepts, load with skip_tagdata=True gives the
\* master key and the payload that load with skip_tagdata=False gives, and
\* an empty tag dictionary.
C27_SkipTagdataSamePayload ==
    (adaptor = "NCM" /\ cx.phase = "loaded skipping") =>
        LET full == NCM_load_result(cx.saved)
        IN  full.err = "none" =>
                /\ cx.err = "none"
                /\ cipher.key = full.key
                /\ raw = full.raw
                /\ cx.loaded_tagdata = EmptyDict

====
